---- MODULE Spec2Model ----
(***************************************************************************)
(* Model of the variant-score pipeline of kath's back end:                 *)
(*   tools/cadd.py          parse_variant, write_vcf, parse_tsv,           *)
(*                          cadd_pipeline                                  *)
(*   scripts/revel.py       RevelTable.init_table                          *)
(*   tools/revel/revel.py   revel_initiator.prepare_revel_database         *)
(*                          assign_revel_scores                            *)
(*   tools/revel.py         get_single_revel_score, assign_revel_scores    *)
(*   routes/workspace_apply_route.py   the apply routes                    *)
(*                                                                         *)
(* Text is modelled as a sequence of one-character strings, so that        *)
(* str.split, str.strip, int() and float() are computed on characters.     *)
(* A cell that is not a string (None, NaN) is the one-element sequence     *)
(* None or NaN, whose element is no single character.                      *)
(***************************************************************************)
EXTENDS Integers, Sequences, FiniteSets, TLC

VARIABLES
    id_parts,      \* the hyphen-free parts variant_str was written from
    variant_str,   \* parse_variant: the argument of the call under way
    parsed,        \* parse_variant: its outcome, or NotCalled
    source,        \* the REVEL CSV: a sequence of rows (DictReader dicts)
    db_exists,     \* os.path.exists(db_path)
    has_table,     \* the database file holds the table revel
    revel,         \* the committed rows of table revel
    txn,           \* rows inserted by the writer and not yet committed
    chunk,         \* the builder's list chunk
    idx,           \* number of source rows the builder has read
    in_chunk,      \* prepare_revel_database: iterations done of range(chunk_size)
    indexes,       \* names of the indexes created on revel
    builder,       \* which build operation was started last
    pc,            \* where that build operation stands
    lookup,        \* the last get_single_revel_score call: its key and outcome
    dataset,       \* the CSV at dataset_path: rows of identifier cells
    input_gene_data, \* the DataFrame main_revel_pipeline reads and returns
    assign_i,      \* assign_revel_scores: the loop variable i
    assign_pc,     \* where main_revel_pipeline stands
    assigner,      \* the file whose assign_revel_scores is applied
    cadd_frame,    \* cadd_pipeline: the argument dataframe
    vcf_file,      \* the lines of the file at vcf_file_path
    tsv_file,      \* the lines of the result file the job produced
    disk,          \* the transient files that exist
    job,           \* the status of the remote job
    job_history,   \* the statuses the job has had, in order
    job_id,        \* download_cadd_scores' local job_id: unbound or bound
    polls,         \* the refreshes of the job page made by the poll loop
    download_out,  \* the outcome of download_cadd_scores, or NotCalled
    driver,        \* the browser session: none, open or quit
    phred,         \* the outcome of parse_tsv, or NotCalled
    cadd_pc,       \* where cadd_pipeline stands
    cadd_out,      \* the outcome of cadd_pipeline, or NotCalled
    route,         \* apply route: "spliceai", "cadd" or "revel"
    override,      \* the request's override query parameter, a string
    destination_path, \* the destination file of the request
    apply_to,      \* the source file of the request
    files,         \* the workspace: path -> file (missing, or its rows)
    before,        \* the workspace when the request started
    existing_data, \* the route's existing_data frame
    result_data,   \* the outcome of the scoring call, or NotCalled
    error,         \* the exception the route's try block raised, or "none"
    events,        \* what the request emitted to the user session, in order
    response,      \* the HTTP status returned, 0 while the request runs
    requests,      \* the number of requests made so far
    apply_pc,      \* where the route stands
    uuid,          \* two CADD requests: request -> the user's uuid
    dataframe,     \* request -> the frame read from its applyTo file
    fs,            \* the users' cadd directories: path -> file
    touched,       \* path -> the requests that wrote or read the file
    copied,        \* request -> the lines gzip_file read, or NotCalled
    uploaded,      \* request -> the lines it uploaded, or NotCalled
    joined,        \* request -> the submitted lines parse_tsv read, or NotCalled
    request_pc     \* request -> where its cadd_pipeline stands

varsParse == <<id_parts, variant_str, parsed>>
varsStore == <<source, db_exists, has_table, revel, txn, chunk, idx, in_chunk,
               indexes, builder, pc, lookup>>
varsAssign == <<dataset, input_gene_data, assign_i, assign_pc, assigner>>
varsJob == <<job, job_history, job_id, polls, download_out, driver>>
varsCadd == <<cadd_frame, vcf_file, tsv_file, disk, varsJob, phred, cadd_pc, cadd_out>>
varsApply == <<route, override, destination_path, apply_to, files, before,
               existing_data, result_data, error, events, response, requests,
               apply_pc>>
varsRequests == <<uuid, dataframe, fs, touched, copied, uploaded, joined, request_pc>>
vars == <<varsParse, varsStore, varsAssign, varsCadd, varsApply, varsRequests>>
varsNotParse == <<varsStore, varsAssign, varsCadd, varsApply, varsRequests>>
varsNotStore == <<varsParse, varsAssign, varsCadd, varsApply, varsRequests>>
varsNotAssign == <<varsParse, varsCadd, varsApply, varsRequests>>
varsNotCadd == <<varsParse, varsStore, varsAssign, varsApply, varsRequests>>
varsNotApply == <<varsParse, varsStore, varsAssign, varsCadd, varsRequests>>
varsNotRequests == <<varsParse, varsStore, varsAssign, varsCadd, varsApply>>

(***************************************************************************)
(* Text helpers                                                            *)
(***************************************************************************)
None == <<"None">>
NaN == <<"NaN">>
Dot == <<".">>
Empty == <<>>

IsStr(v) == v # None /\ v # NaN

\* A text is a sequence of characters, each a one-character string; the
\* characters tab, newline, double quote and backtick are written with the
\* names below.
TAB == "tab"
LF == "lf"
QUOTE == "quote"
BACKTICK == "backtick"
Whitespace == {TAB, LF, " "}

\* The text without the blanks it starts with, and without those it ends
\* with.
LStrip(s) ==
    IF Len(s) = 0 \/ s[1] \notin Whitespace THEN s
    ELSE IF \A i \in 1..Len(s) : s[i] \in Whitespace THEN <<>>
    ELSE SubSeq(s, CHOOSE i \in 1..Len(s) :
                       s[i] \notin Whitespace /\ \A j \in 1..(i - 1) : s[j] \in Whitespace,
                Len(s))

RStrip(s) ==
    IF Len(s) = 0 \/ s[Len(s)] \notin Whitespace THEN s
    ELSE IF \A i \in 1..Len(s) : s[i] \in Whitespace THEN <<>>
    ELSE SubSeq(s, 1, CHOOSE i \in 1..Len(s) :
                          s[i] \notin Whitespace /\ \A j \in (i + 1)..Len(s) : s[j] \in Whitespace)

\* The place of the n-th separator of s; 0 before the first, past the end
\* after the last.
SeparatorAt(s, sep, n) ==
    IF n = 0 THEN 0
    ELSE IF n > Cardinality({ i \in 1..Len(s) : s[i] = sep }) THEN Len(s) + 1
    ELSE CHOOSE i \in 1..Len(s) :
             s[i] = sep /\ Cardinality({ j \in 1..i : s[j] = sep }) = n

\* str.split(sep) for a one-character separator: never an empty list.
Split(s, sep) ==
    [n \in 1..(Cardinality({ i \in 1..Len(s) : s[i] = sep }) + 1) |->
        SubSeq(s, SeparatorAt(s, sep, n - 1) + 1, SeparatorAt(s, sep, n) - 1)]

RECURSIVE Join(_, _)
\* sep.join(parts)
Join(parts, sep) ==
    IF Len(parts) = 0 THEN <<>>
    ELSE IF Len(parts) = 1 THEN parts[1]
    ELSE parts[1] \o <<sep>> \o Join(Tail(parts), sep)

(***************************************************************************)
(* Outcomes of a call: a returned value or a raised exception.             *)
(***************************************************************************)
Ret(v) == [exc |-> "none", val |-> v]
Raise(e) == [exc |-> e, val |-> <<>>]
NotCalled == [exc |-> "not called", val |-> <<>>]

(***************************************************************************)
(* cadd.py parse_variant                                                   *)
(***************************************************************************)
UnknownVariant == <<Dot, Dot, Dot, Dot>>

\* Mutant: the three-part branch keeps the third part as the reference.
parse_variant_keep_third(v) ==
    IF ~IsStr(v) THEN Ret(UnknownVariant)
    ELSE LET parts == Split(v, "-") IN
         IF Len(parts) = 4 THEN Ret(<<parts[1], parts[2], parts[3], parts[4]>>)
         ELSE IF Len(parts) = 3 THEN Ret(<<parts[1], parts[2], parts[3], Dot>>)
         ELSE Raise("ValueError")

\* try: four-way unpack of split("-"); except ValueError: three-way unpack
\* of split("-"), whose own ValueError leaves the function; except
\* AttributeError (the argument has no split): the sentinel.
parse_variant(v) ==
    IF ~IsStr(v) THEN Ret(UnknownVariant)
    ELSE LET parts == Split(v, "-") IN
         IF Len(parts) = 4 THEN Ret(<<parts[1], parts[2], parts[3], parts[4]>>)
         ELSE IF Len(parts) = 3 THEN Ret(<<parts[1], parts[2], Dot, Dot>>)
         ELSE Raise("ValueError")

(***************************************************************************)
(* Inputs of parse_variant: identifiers of 1..MaxParts hyphen-separated    *)
(* parts, and the non-string cells.                                        *)
(***************************************************************************)
MaxParts == 5

IdParts == { <<>>, <<"6">>, <<"c", "h", "r", "6">>, <<"1", "0">>, <<"A">>, Dot }

PartLists == UNION { [1..n -> IdParts] : n \in 1..MaxParts }

\* The identifier is written by joining its parts with hyphens; a cell
\* that holds no string has no parts.
ParseStart ==
    /\ \/ /\ id_parts \in PartLists
          /\ variant_str = Join(id_parts, "-")
       \/ /\ id_parts = <<>>
          /\ variant_str \in {None, NaN}
    /\ parsed = NotCalled

CallParseVariant ==
    /\ parsed = NotCalled
    /\ parsed' = parse_variant(variant_str)
    /\ UNCHANGED <<id_parts, variant_str>>
    /\ UNCHANGED varsNotParse

(***************************************************************************)
(* Conversions of text.  int() and float() are computed on the characters: *)
(* blanks around the text, one sign, digits with single underscores        *)
(* between them, one point, an exponent, and the words inf, infinity and   *)
(* nan.  The alphabet is ASCII with tab and newline.                       *)
(*                                                                         *)
(* A Python int is kept with the fact SQLite needs of it: whether it has   *)
(* more than 64 bits.  A float is a double.  A text whose value is at or   *)
(* past 2^1024 - 2^970 reads as inf.  A text whose value is below 2^-1022  *)
(* reads as the multiple of 2^-1074 nearest to it, the even one of two at  *)
(* the same distance: a subnormal double, or 0.0.  Between them the float  *)
(* is kept as its exact decimal, mantissa / 10^scale without trailing      *)
(* zeros, which names the double for texts of up to 15 significant digits. *)
(* -0.0 is kept as 0.0, its equal.  Values of 2^31 and more are beyond the *)
(* integers of TLC.                                                        *)
(***************************************************************************)
Digits == {"0", "1", "2", "3", "4", "5", "6", "7", "8", "9"}

DigitVal(c) ==
    CASE c = "0" -> 0 [] c = "1" -> 1 [] c = "2" -> 2 [] c = "3" -> 3
      [] c = "4" -> 4 [] c = "5" -> 5 [] c = "6" -> 6 [] c = "7" -> 7
      [] c = "8" -> 8 [] c = "9" -> 9

AllDigits(s) == Len(s) > 0 /\ \A i \in 1..Len(s) : s[i] \in Digits

\* Digits, with single underscores between them.
DigitGroup(s) ==
    /\ Len(s) > 0
    /\ \A i \in 1..Len(s) :
          \/ s[i] \in Digits
          \/ s[i] = "_" /\ 1 < i /\ i < Len(s) /\ s[i - 1] \in Digits /\ s[i + 1] \in Digits

WithoutUnderscores(s) == SelectSeq(s, LAMBDA c : c # "_")

RECURSIVE DecimalValue(_)
DecimalValue(s) ==
    IF Len(s) = 0 THEN 0
    ELSE 10 * DecimalValue(SubSeq(s, 1, Len(s) - 1)) + DigitVal(s[Len(s)])

\* The digits without the zeros they start with.
SkipZeros(s) ==
    IF Len(s) = 0 \/ s[1] # "0" THEN s
    ELSE IF \A i \in 1..Len(s) : s[i] = "0" THEN <<>>
    ELSE SubSeq(s, CHOOSE i \in 1..Len(s) : s[i] # "0" /\ \A j \in 1..(i - 1) : s[j] = "0",
                Len(s))

\* The digits without the zeros they end with.
DropZeros(s) ==
    IF Len(s) = 0 \/ s[Len(s)] # "0" THEN s
    ELSE IF \A i \in 1..Len(s) : s[i] = "0" THEN <<>>
    ELSE SubSeq(s, 1,
                CHOOSE i \in 1..Len(s) : s[i] # "0" /\ \A j \in (i + 1)..Len(s) : s[j] = "0")

\* The digit at place i of 0.d, zero past the end of d.
DigitAt(d, i) == IF i <= Len(d) THEN DigitVal(d[i]) ELSE 0

\* 0.a > 0.b for the digit sequences a and b.
DigitsAbove(a, b) ==
    \E i \in 1..Len(a) :
        /\ DigitAt(a, i) > DigitAt(b, i)
        /\ \A j \in 1..(i - 1) : DigitAt(a, j) = DigitAt(b, j)

\* A Python int of at most 64 bits, and one of more: above 2^63 - 1 with
\* sign 1, below -2^63 with sign -1.
Integer(n) == [bits |-> "64", value |-> n]
WideInteger(sign) == [bits |-> "more", value |-> sign]

\* The digits of 2^63 - 1 and of 2^63.
MaxInt64 == <<"9", "2", "2", "3", "3", "7", "2", "0", "3", "6", "8", "5", "4", "7", "7", "5",
              "8", "0", "7">>
TwoTo63 == <<"9", "2", "2", "3", "3", "7", "2", "0", "3", "6", "8", "5", "4", "7", "7", "5",
              "8", "0", "8">>

\* The int of the digits d (no zero in front) with the sign.
int_of(sign, d) ==
    IF \/ Len(d) > 19
       \/ Len(d) = 19 /\ DigitsAbove(d, IF sign = 1 THEN MaxInt64 ELSE TwoTo63)
    THEN WideInteger(sign)
    ELSE Integer(sign * DecimalValue(d))

Decimal(m, k) == [kind |-> "finite", mantissa |-> m, scale |-> k]
Infinite(sign) == [kind |-> "inf", mantissa |-> sign, scale |-> 0]
NotANumber == [kind |-> "nan", mantissa |-> 0, scale |-> 0]

RECURSIVE Normalized(_, _)
\* m / 10^k with a scale of 0 or more and no trailing zero.
Normalized(m, k) ==
    IF k < 0 THEN Normalized(m * 10, k + 1)
    ELSE IF k > 0 /\ m % 10 = 0 THEN Normalized(m \div 10, k - 1)
    ELSE Decimal(m, k)

\* The text without the blanks around it and without its sign.
Unsigned(s) ==
    LET t == RStrip(LStrip(s)) IN
    IF Len(t) > 0 /\ t[1] \in {"+", "-"} THEN Tail(t) ELSE t

Sign(s) ==
    LET t == RStrip(LStrip(s)) IN
    IF Len(t) > 0 /\ t[1] = "-" THEN -1 ELSE 1

\* int(text).  CPython refuses a text of more than 4300 digits, the zeros
\* in front counted, the sign, the blanks and the underscores not
\* (sys.int_info.default_max_str_digits).
MaxStrDigits == 4300

\* The int of a text t without blanks and sign.
int_digits(sign, t) ==
    IF ~DigitGroup(t) THEN Raise("ValueError")
    ELSE IF Len(WithoutUnderscores(t)) > MaxStrDigits THEN Raise("ValueError")
    ELSE Ret(int_of(sign, SkipZeros(WithoutUnderscores(t))))

py_int(s) == CHOOSE r \in { int_digits(Sign(s), t) : t \in {Unsigned(s)} } : TRUE

Ascii ==
    <<" ", "!", QUOTE, "#", "$", "%", "&", "'", "(", ")", "*", "+", ",", "-", ".", "/",
      "0", "1", "2", "3", "4", "5", "6", "7", "8", "9", ":", ";", "<", "=", ">", "?",
      "@", "A", "B", "C", "D", "E", "F", "G", "H", "I", "J", "K", "L", "M", "N", "O",
      "P", "Q", "R", "S", "T", "U", "V", "W", "X", "Y", "Z", "[", "\\", "]", "^", "_",
      BACKTICK, "a", "b", "c", "d", "e", "f", "g", "h", "i", "j", "k", "l", "m", "n", "o",
      "p", "q", "r", "s", "t", "u", "v", "w", "x", "y", "z", "{", "|", "}", "~">>

\* The code points of the ASCII characters, tab and newline.
CodePoint ==
    [c \in { Ascii[i] : i \in 1..Len(Ascii) } \cup {TAB, LF} |->
        IF c = TAB THEN 9
        ELSE IF c = LF THEN 10
        ELSE 31 + CHOOSE i \in 1..Len(Ascii) : Ascii[i] = c]

\* ord(c); the alphabet of the model has no character outside ASCII.
Ord(c) == IF c \in DOMAIN CodePoint THEN CodePoint[c] ELSE 128

Lower(c) == IF Ord(c) \in 65..90 THEN Ascii[Ord(c) + 1] ELSE c

LowerCase(s) == [i \in 1..Len(s) |-> Lower(s[i])]

\* The place of the exponent's letter, 0 when the text has none.
ExponentAt(t) ==
    IF \E i \in 1..Len(t) : t[i] \in {"e", "E"}
    THEN CHOOSE i \in 1..Len(t) : t[i] \in {"e", "E"} /\ \A j \in 1..(i - 1) : t[j] \notin {"e", "E"}
    ELSE 0

\* A sign and digits.
SignedDigits(x) == DigitGroup(IF Len(x) > 0 /\ x[1] \in {"+", "-"} THEN Tail(x) ELSE x)

\* The exponent written in x; an exponent of more than six digits is
\* kept as one of six, which is past every double as well.
exponent_of(sign, d) == IF Len(d) > 6 THEN sign * 999999 ELSE sign * DecimalValue(d)

SignedValue(x) ==
    IF Len(x) = 0 THEN 0
    ELSE IF x[1] = "-" THEN exponent_of(-1, SkipZeros(WithoutUnderscores(Tail(x))))
    ELSE IF x[1] = "+" THEN exponent_of(1, SkipZeros(WithoutUnderscores(Tail(x))))
    ELSE exponent_of(1, SkipZeros(WithoutUnderscores(x)))

\* Digits, with at most one point before, between or after them.
PointedDigits(ps) ==
    /\ Len(ps) <= 2
    /\ \A n \in 1..Len(ps) : Len(ps[n]) = 0 \/ DigitGroup(ps[n])
    /\ \E n \in 1..Len(ps) : Len(ps[n]) > 0

\* The 309 digits of 2^1024 - 2^970, half way from the largest double to
\* 2^1024: a value from there on rounds to 2^1024, which is no double.
PastMaxDouble ==
    <<"1", "7", "9", "7", "6", "9", "3", "1", "3", "4", "8", "6", "2", "3", "1", "5", "8",
      "0", "7", "9", "3", "7", "2", "8", "9", "7", "1", "4", "0", "5", "3", "0", "3", "4",
      "1", "5", "0", "7", "9", "9", "3", "4", "1", "3", "2", "7", "1", "0", "0", "3", "7",
      "8", "2", "6", "9", "3", "6", "1", "7", "3", "7", "7", "8", "9", "8", "0", "4", "4",
      "4", "9", "6", "8", "2", "9", "2", "7", "6", "4", "7", "5", "0", "9", "4", "6", "6",
      "4", "9", "0", "1", "7", "9", "7", "7", "5", "8", "7", "2", "0", "7", "0", "9", "6",
      "3", "3", "0", "2", "8", "6", "4", "1", "6", "6", "9", "2", "8", "8", "7", "9", "1",
      "0", "9", "4", "6", "5", "5", "5", "5", "4", "7", "8", "5", "1", "9", "4", "0", "4",
      "0", "2", "6", "3", "0", "6", "5", "7", "4", "8", "8", "6", "7", "1", "5", "0", "5",
      "8", "2", "0", "6", "8", "1", "9", "0", "8", "9", "0", "2", "0", "0", "0", "7", "0",
      "8", "3", "8", "3", "6", "7", "6", "2", "7", "3", "8", "5", "4", "8", "4", "5", "8",
      "1", "7", "7", "1", "1", "5", "3", "1", "7", "6", "4", "4", "7", "5", "7", "3", "0",
      "2", "7", "0", "0", "6", "9", "8", "5", "5", "5", "7", "1", "3", "6", "6", "9", "5",
      "9", "6", "2", "2", "8", "4", "2", "9", "1", "4", "8", "1", "9", "8", "6", "0", "8",
      "3", "4", "9", "3", "6", "4", "7", "5", "2", "9", "2", "7", "1", "9", "0", "7", "4",
      "1", "6", "8", "4", "4", "4", "3", "6", "5", "5", "1", "0", "7", "0", "4", "3", "4",
      "2", "7", "1", "1", "5", "5", "9", "6", "9", "9", "5", "0", "8", "0", "9", "3", "0",
      "4", "2", "8", "8", "0", "1", "7", "7", "9", "0", "4", "1", "7", "4", "4", "9", "7",
      "7", "9", "2">>

\* 2^1074 in base 1000, the lowest limb first.
TwoTo1074 ==
    <<784, 494, 93, 741, 707, 307, 263, 6, 646, 508, 327, 186, 532, 502, 230, 615, 414, 333,
      552, 769, 358, 512, 56, 810, 340, 556, 159, 649, 355, 103, 618, 698, 692, 424, 483, 7,
      562, 68, 745, 472, 678, 767, 239, 341, 216, 93, 742, 907, 466, 364, 361, 566, 276,
      424, 517, 921, 509, 738, 940, 399, 13, 867, 476, 793, 385, 737, 808, 389, 911, 811,
      316, 864, 77, 187, 495, 124, 437, 701, 383, 960, 891, 346, 995, 567, 339, 430, 27,
      358, 901, 356, 118, 142, 764, 649, 556, 49, 307, 917, 718, 346, 495, 352, 618, 310,
      307, 253, 402, 202>>

\* 1, 10, ..., 10^8.
ten == <<1, 10, 100, 1000, 10000, 100000, 1000000, 10000000, 100000000>>

\* The number of the digits d in base 1000, the lowest limb first.
limbs(d) ==
    [j \in 1..((Len(d) + 2) \div 3) |->
        DecimalValue(SubSeq(d, IF Len(d) - 3 * j + 1 < 1 THEN 1 ELSE Len(d) - 3 * j + 1,
                            Len(d) - 3 * (j - 1)))]

RECURSIVE column(_, _, _, _)
\* The sum of a[c + 1 - i] * b[i] over the first n limbs of b.
column(a, b, c, n) ==
    IF n = 0 THEN 0
    ELSE column(a, b, c, n - 1) + (IF c + 1 - n \in 1..Len(a) THEN a[c + 1 - n] * b[n] ELSE 0)

RECURSIVE carried(_, _, _)
\* The limbs of the column sums from column c on, with the carry.
carried(cols, c, carry) ==
    IF c > Len(cols) /\ carry = 0 THEN <<>>
    ELSE <<(carry + (IF c <= Len(cols) THEN cols[c] ELSE 0)) % 1000>>
         \o carried(cols, c + 1, (carry + (IF c <= Len(cols) THEN cols[c] ELSE 0)) \div 1000)

\* a * b for numbers in limbs, b of at most 2000 limbs.
product(a, b) ==
    carried([c \in 1..(Len(a) + Len(b) - 1) |-> column(a, b, c, Len(b))], 1, 0)

\* The decimal digit of 10^p in the number x in limbs.
digit_at(x, p) ==
    IF (p \div 3) + 1 > Len(x) THEN 0 ELSE (x[(p \div 3) + 1] \div ten[(p % 3) + 1]) % 10

RECURSIVE part(_, _, _)
\* The n decimal digits of x from that of 10^p upwards, as a number.
part(x, p, n) == IF n = 0 THEN 0 ELSE digit_at(x, p) + 10 * part(x, p + 1, n - 1)

\* x / 10^s is rounded up to the next integer: its fraction is above one
\* half, or it is one half and the integer below is odd.
rounds_up(x, s) ==
    \/ digit_at(x, s - 1) > 5
    \/ /\ digit_at(x, s - 1) = 5
       /\ \/ \E p \in 0..(IF s - 2 < 3 * Len(x) THEN s - 2 ELSE 3 * Len(x)) : digit_at(x, p) # 0
          \/ digit_at(x, s) % 2 = 1

\* A double below 2^-1022, k * 2^-1074 with k = high * 10^8 + low.
Subnormal(sign, high, low) == [kind |-> "subnormal", sign |-> sign, high |-> high, low |-> low]

\* The multiple of 2^-1074 for k = high * 10^8 + low + up: 0.0, a
\* subnormal double, or none when k is 2^52 = 4503599627370496 or more.
multiple(sign, high, low, up) ==
    IF \/ high + ((low + up) \div ten[9]) > 45035996
       \/ high + ((low + up) \div ten[9]) = 45035996 /\ (low + up) % ten[9] >= 27370496
    THEN [kind |-> "normal"]
    ELSE IF high = 0 /\ low + up = 0 THEN Decimal(0, 0)
    ELSE Subnormal(sign, high + ((low + up) \div ten[9]), (low + up) % ten[9])

\* x / 10^s rounded to an integer k, as the double k * 2^-1074.
rounded(sign, x, s) ==
    IF \E p \in (s + 16)..(3 * Len(x)) : digit_at(x, p) # 0 THEN [kind |-> "normal"]
    ELSE multiple(sign, part(x, s + 8, 8), part(x, s, 8), IF rounds_up(x, s) THEN 1 ELSE 0)

\* The double of sign * n / 10^s as a multiple of 2^-1074, for digits n
\* without zero at the end.
in_subnormal_range(sign, n, s) ==
    CHOOSE r \in { rounded(sign, x, s) : x \in {product(limbs(n), TwoTo1074)} } : TRUE

\* The double of sign * 0.d * 10^(e + 1), d being digits without zero in
\* front and e the exponent of the first of them.  Every value below
\* 2^-1022 has e <= -308.
double_of(sign, d, e) ==
    IF Len(d) = 0 THEN Decimal(0, 0)
    ELSE IF e > 308 \/ (e = 308 /\ ~DigitsAbove(PastMaxDouble, d)) THEN Infinite(sign)
    ELSE IF e > -308 THEN Normalized(sign * DecimalValue(DropZeros(d)), Len(DropZeros(d)) - 1 - e)
    ELSE CHOOSE r \in { IF k.kind = "normal"
                        THEN Normalized(sign * DecimalValue(DropZeros(d)),
                                        Len(DropZeros(d)) - 1 - e)
                        ELSE k :
                        k \in {in_subnormal_range(sign, DropZeros(d),
                                                  Len(DropZeros(d)) - 1 - e)} } : TRUE

\* The number written by the digits whole and frac around the point,
\* times 10^exponent.
pointed(sign, whole, frac, exponent) ==
    CHOOSE r \in { double_of(sign, d, Len(d) - 1 - Len(frac) + exponent) :
                       d \in {SkipZeros(whole \o frac)} } : TRUE

PointedValue(sign, ps, exponent) ==
    IF Len(ps) = 2
    THEN pointed(sign, WithoutUnderscores(ps[1]), WithoutUnderscores(ps[2]), exponent)
    ELSE pointed(sign, WithoutUnderscores(ps[1]), <<>>, exponent)

\* The words float() reads: inf, infinity and nan in any case.
float_word(sign, t) ==
    IF LowerCase(t) \in {<<"i", "n", "f">>, <<"i", "n", "f", "i", "n", "i", "t", "y">>}
    THEN Ret(Infinite(sign))
    ELSE IF LowerCase(t) = <<"n", "a", "n">> THEN Ret(NotANumber)
    ELSE Raise("ValueError")

\* float of a text t without exponent: its digits around the point are ps.
float_plain(sign, t, ps) ==
    IF PointedDigits(ps) THEN Ret(PointedValue(sign, ps, 0)) ELSE float_word(sign, t)

\* float of a text with the mantissa m (split at its points: ps) and the
\* exponent x.
float_exponent(sign, ps, x) ==
    IF PointedDigits(ps) /\ SignedDigits(x) THEN Ret(PointedValue(sign, ps, SignedValue(x)))
    ELSE Raise("ValueError")

\* float of a text without blanks and sign, its exponent's letter at
\* place at.
float_at(sign, t, at) ==
    IF at = 0 THEN CHOOSE r \in { float_plain(sign, t, ps) : ps \in {Split(t, ".")} } : TRUE
    ELSE CHOOSE r \in { float_exponent(sign, ps, SubSeq(t, at + 1, Len(t))) :
                            ps \in {Split(SubSeq(t, 1, at - 1), ".")} } : TRUE

float_of(sign, t) == float_at(sign, t, ExponentAt(t))

\* float(text): the text is stripped once, and read without its sign.
py_float(s) == CHOOSE r \in { float_of(Sign(s), t) : t \in {Unsigned(s)} } : TRUE

RECURSIVE StrGreater(_, _)
\* a > b for Python strings: lexicographic by code point.
StrGreater(a, b) ==
    IF Len(a) = 0 THEN FALSE
    ELSE IF Len(b) = 0 THEN TRUE
    ELSE IF a[1] # b[1] THEN Ord(a[1]) > Ord(b[1])
    ELSE StrGreater(Tail(a), Tail(b))

(***************************************************************************)
(* Table revel: PRIMARY KEY (chr, grch38_pos, ref, alt).                   *)
(***************************************************************************)
RowKey(r) == <<r.chr, r.grch38_pos, r.ref, r.alt>>

Null == [kind |-> "NULL", mantissa |-> 0, scale |-> 0]

\* The tuple as it is bound to the statement: an int of more than 64 bits
\* raises OverflowError, and a float that is nan is bound as NULL.
bound(r) ==
    IF r.grch38_pos.bits # "64" THEN Raise("OverflowError")
    ELSE Ret([chr |-> r.chr, grch38_pos |-> r.grch38_pos.value, ref |-> r.ref,
              alt |-> r.alt,
              REVEL |-> IF r.REVEL = NotANumber THEN Null ELSE r.REVEL])

\* INSERT OR IGNORE INTO revel VALUES (?,?,?,?,?) for one tuple that binds.
insert_or_ignore(table, r) ==
    IF \E q \in table : RowKey(q) = RowKey(bound(r).val) THEN table
    ELSE table \cup {bound(r).val}

RECURSIVE executemany_in_reverse(_, _)
\* Mutant: the rows of a batch are inserted last row first.
executemany_in_reverse(table, rows) ==
    IF Len(rows) = 0 THEN table
    ELSE IF bound(rows[Len(rows)]).exc # "none" THEN table
    ELSE executemany_in_reverse(insert_or_ignore(table, rows[Len(rows)]),
                                SubSeq(rows, 1, Len(rows) - 1))

RECURSIVE executemany(_, _)
\* conn.executemany(INSERT OR IGNORE ..., rows): the rows in list order, up
\* to the first that does not bind; the rows before it stay inserted in
\* the open transaction.
executemany(table, rows) ==
    IF Len(rows) = 0 THEN table
    ELSE IF bound(Head(rows)).exc # "none" THEN table
    ELSE executemany(insert_or_ignore(table, Head(rows)), Tail(rows))

\* executemany raises: a tuple of the batch does not bind.
overflows(rows) == \E n \in 1..Len(rows) : bound(rows[n]).exc # "none"

\* The tuple appended to chunk for a CSV row, or the exception of int()/float().
chunk_tuple(row) ==
    LET p == py_int(row.grch38_pos)
        f == py_float(row.REVEL)
    IN  IF p.exc # "none" THEN p
        ELSE IF f.exc # "none" THEN f
        ELSE Ret([chr |-> row.chr, grch38_pos |-> p.val, ref |-> row.ref,
                  alt |-> row.alt, REVEL |-> f.val])

(***************************************************************************)
(* The build operations.  chunk_size is 100_000 in both; the model scales  *)
(* it down so that a source of a few rows spans several chunks.            *)
(*                                                                         *)
(* A build holds no lock on the file, so each statement whose effect       *)
(* another connection sees, or a kill leaves behind, is a step of its own: *)
(* the existence check, sqlite3.connect (the file appears), CREATE TABLE   *)
(* (the table appears), every commit of a chunk, and each CREATE INDEX.    *)
(* BEGIN, executemany and commit of one chunk are one step: the rows are   *)
(* seen by nobody before the commit, and a kill before it rolls them back. *)
(***************************************************************************)
chunk_size == 2

Running == {"connect", "create", "loop", "leftover", "idx_pos", "idx_chr_pos"}

NoLookup == [key |-> <<>>, out |-> NotCalled]

\* scripts/revel.py RevelTable.init_table, lines 18-20: the existence check.
StartInitTable ==
    /\ pc \notin Running
    /\ builder' = "init_table"
    /\ lookup' = NoLookup
    /\ pc' = IF db_exists THEN "FileExistsError" ELSE "connect"
    /\ txn' = IF db_exists THEN txn ELSE {}
    /\ chunk' = IF db_exists THEN chunk ELSE <<>>
    /\ idx' = IF db_exists THEN idx ELSE 0
    /\ in_chunk' = IF db_exists THEN in_chunk ELSE 0
    /\ UNCHANGED <<source, db_exists, has_table, revel, indexes>>
    /\ UNCHANGED varsNotStore

\* scripts/revel.py run with --overwrite, lines 109-110: the database file
\* is removed, and what it held with it; line 113 then calls init_table
\* (StartInitTable), which finds no file unless a lookup has made one in
\* between.
Overwrite ==
    /\ pc \notin Running
    /\ db_exists
    /\ db_exists' = FALSE
    /\ has_table' = FALSE
    /\ revel' = {}
    /\ indexes' = {}
    /\ txn' = {}
    /\ chunk' = <<>>
    /\ idx' = 0
    /\ in_chunk' = 0
    /\ builder' = "none"
    /\ pc' = "idle"
    /\ lookup' = NoLookup
    /\ UNCHANGED source
    /\ UNCHANGED varsNotStore

\* init_table, line 24: sqlite3.connect makes the file when it is missing.
InitTableConnect ==
    /\ builder = "init_table" /\ pc = "connect"
    /\ db_exists' = TRUE
    /\ pc' = "create"
    /\ lookup' = NoLookup
    /\ UNCHANGED <<source, has_table, revel, txn, chunk, idx, in_chunk, indexes,
                   builder>>
    /\ UNCHANGED varsNotStore

\* init_table, lines 25-39: the pragmas and CREATE TABLE IF NOT EXISTS.
InitTableCreate ==
    /\ builder = "init_table" /\ pc = "create"
    /\ has_table' = TRUE
    /\ pc' = "loop"
    /\ lookup' = NoLookup
    /\ UNCHANGED <<source, db_exists, revel, txn, chunk, idx, in_chunk, indexes,
                   builder>>
    /\ UNCHANGED varsNotStore

\* init_table, lines 49-74: one iteration of the loop over the reader.  The
\* executemany of a full chunk (line 54) stands outside the try of lines
\* 65-74: when it raises, the exception leaves init_table and the with
\* block of the connection rolls the transaction back.
InitTableRow ==
    /\ builder = "init_table" /\ pc = "loop"
    /\ idx < Len(source)
    /\ LET row == source[idx + 1]
           border == (idx % chunk_size = 0) /\ chunk # <<>>
           revel1 == IF border THEN executemany(revel, chunk) ELSE revel
           chunk1 == IF border THEN <<>> ELSE chunk
           t == chunk_tuple(row)
       IN  IF border /\ overflows(chunk)
           THEN /\ pc' = "OverflowError"
                /\ chunk' = <<>>
                /\ UNCHANGED <<revel, idx>>
           ELSE /\ revel' = revel1
                /\ IF StrGreater(row.chr, <<"6">>)
                   THEN /\ pc' = "leftover"
                        /\ chunk' = chunk1
                        /\ idx' = idx
                   ELSE /\ pc' = pc
                        /\ idx' = idx + 1
                        /\ chunk' = IF row.chr # <<"6">> \/ row.grch38_pos = Dot
                                       THEN chunk1
                                    ELSE IF t.exc = "none" THEN Append(chunk1, t.val)
                                    ELSE chunk1
    /\ lookup' = NoLookup
    /\ UNCHANGED <<source, db_exists, has_table, txn, in_chunk, indexes, builder>>
    /\ UNCHANGED varsNotStore

\* init_table: the reader is exhausted.
InitTableEndOfFile ==
    /\ builder = "init_table" /\ pc = "loop"
    /\ idx = Len(source)
    /\ pc' = "leftover"
    /\ lookup' = NoLookup
    /\ UNCHANGED <<source, db_exists, has_table, revel, txn, chunk, idx, in_chunk,
                   indexes, builder>>
    /\ UNCHANGED varsNotStore

\* init_table, lines 75-81: the leftover chunk; its executemany (line 78)
\* stands outside the try as well.
InitTableLeftover ==
    /\ builder = "init_table" /\ pc = "leftover"
    /\ IF overflows(chunk)
       THEN /\ pc' = "OverflowError"
            /\ chunk' = <<>>
            /\ UNCHANGED revel
       ELSE /\ pc' = "idx_pos"
            /\ revel' = IF chunk # <<>> THEN executemany(revel, chunk) ELSE revel
            /\ UNCHANGED chunk
    /\ lookup' = NoLookup
    /\ UNCHANGED <<source, db_exists, has_table, txn, idx, in_chunk, indexes, builder>>
    /\ UNCHANGED varsNotStore

\* init_table, line 84: CREATE INDEX idx_pos, a transaction of its own.
InitTableIndexPos ==
    /\ builder = "init_table" /\ pc = "idx_pos"
    /\ indexes' = indexes \cup {"idx_pos"}
    /\ pc' = "idx_chr_pos"
    /\ lookup' = NoLookup
    /\ UNCHANGED <<source, db_exists, has_table, revel, txn, chunk, idx, in_chunk,
                   builder>>
    /\ UNCHANGED varsNotStore

\* init_table, line 85: CREATE INDEX idx_chr_pos, and the return.
InitTableIndexChrPos ==
    /\ builder = "init_table" /\ pc = "idx_chr_pos"
    /\ indexes' = indexes \cup {"idx_chr_pos"}
    /\ pc' = "done"
    /\ lookup' = NoLookup
    /\ UNCHANGED <<source, db_exists, has_table, revel, txn, chunk, idx, in_chunk,
                   builder>>
    /\ UNCHANGED varsNotStore

\* tools/revel/revel.py prepare_revel_database, lines 85-89: an existing
\* file ends the call with a normal return of db_path.
StartPrepare ==
    /\ pc \notin Running
    /\ builder' = "prepare_revel_database"
    /\ lookup' = NoLookup
    /\ pc' = IF db_exists THEN "returned db_path" ELSE "connect"
    /\ txn' = IF db_exists THEN txn ELSE {}
    /\ chunk' = IF db_exists THEN chunk ELSE <<>>
    /\ idx' = IF db_exists THEN idx ELSE 0
    /\ in_chunk' = IF db_exists THEN in_chunk ELSE 0
    /\ UNCHANGED <<source, db_exists, has_table, revel, indexes>>
    /\ UNCHANGED varsNotStore

\* prepare_revel_database, line 91: sqlite3.connect makes the file when it
\* is missing.
PrepareConnect ==
    /\ builder = "prepare_revel_database" /\ pc = "connect"
    /\ db_exists' = TRUE
    /\ pc' = "create"
    /\ lookup' = NoLookup
    /\ UNCHANGED <<source, has_table, revel, txn, chunk, idx, in_chunk, indexes,
                   builder>>
    /\ UNCHANGED varsNotStore

\* prepare_revel_database, lines 92-104: the pragmas and CREATE TABLE IF
\* NOT EXISTS.
PrepareCreate ==
    /\ builder = "prepare_revel_database" /\ pc = "create"
    /\ has_table' = TRUE
    /\ pc' = "loop"
    /\ lookup' = NoLookup
    /\ UNCHANGED <<source, db_exists, revel, txn, chunk, idx, in_chunk, indexes,
                   builder>>
    /\ UNCHANGED varsNotStore

\* prepare_revel_database, lines 116-146: one iteration of
\* for _ in range(chunk_size) that reads a row.  A row that is kept is
\* appended to chunk and the whole chunk is sent to executemany again; an
\* exception of executemany is caught (line 145) and its tuple stays in
\* chunk.
PrepareRow ==
    /\ builder = "prepare_revel_database" /\ pc = "loop"
    /\ in_chunk < chunk_size
    /\ idx < Len(source)
    /\ LET row == source[idx + 1]
           t == chunk_tuple(row)
           keep == row.grch38_pos # Dot /\ t.exc = "none"
           chunk1 == IF keep THEN Append(chunk, t.val) ELSE chunk
       IN  /\ chunk' = chunk1
           /\ txn' = IF keep THEN executemany(revel \cup txn, chunk1) \ revel
                     ELSE txn
    /\ idx' = idx + 1
    /\ in_chunk' = in_chunk + 1
    /\ lookup' = NoLookup
    /\ UNCHANGED <<source, db_exists, has_table, revel, indexes, builder, pc>>
    /\ UNCHANGED varsNotStore

\* prepare_revel_database, line 148 after a full range: commit, and the
\* while loop starts the next chunk.
PrepareChunkCommit ==
    /\ builder = "prepare_revel_database" /\ pc = "loop"
    /\ in_chunk = chunk_size
    /\ revel' = revel \cup txn
    /\ txn' = {}
    /\ chunk' = <<>>
    /\ in_chunk' = 0
    /\ lookup' = NoLookup
    /\ UNCHANGED <<source, db_exists, has_table, idx, indexes, builder, pc>>
    /\ UNCHANGED varsNotStore

\* prepare_revel_database, lines 118-120 and 148: StopIteration breaks the
\* for loop only; the commit follows and while True starts over.  No
\* statement leaves the while loop, so lines 150-156 are never reached.
PrepareEndOfFile ==
    /\ builder = "prepare_revel_database" /\ pc = "loop"
    /\ in_chunk < chunk_size
    /\ idx = Len(source)
    /\ revel' = revel \cup txn
    /\ txn' = {}
    /\ chunk' = <<>>
    /\ in_chunk' = 0
    /\ lookup' = NoLookup
    /\ UNCHANGED <<source, db_exists, has_table, idx, indexes, builder, pc>>
    /\ UNCHANGED varsNotStore

\* The process that runs a build is killed, at any statement from the
\* existence check on: what was not committed is lost.
Crash ==
    /\ pc \in Running
    /\ pc' = "crashed"
    /\ txn' = {}
    /\ chunk' = <<>>
    /\ lookup' = NoLookup
    /\ UNCHANGED <<source, db_exists, has_table, revel, idx, in_chunk, indexes,
                   builder>>
    /\ UNCHANGED varsNotStore

(***************************************************************************)
(* tools/revel.py get_single_revel_score                                   *)
(***************************************************************************)
\* A REVEL value as Python sees it: the float of a stored row, or pd.NA.
Real(x) == [type |-> "float", value |-> x]
NA == [type |-> "NA", value |-> Decimal(0, 0)]

\* A result column that holds NULL reaches Python as None.
PyNone == [type |-> "None", value |-> Decimal(0, 0)]

\* The integer a numeric reading gives for the text of a parameter.
integer_of(n, text) ==
    IF /\ n.exc = "none"
       /\ n.val.kind = "finite"
       /\ n.val.scale = 0
       /\ \A i \in 1..Len(text) : text[i] # "_"
    THEN Ret(n.val.mantissa)
    ELSE [exc |-> "no integer", val |-> 0]

\* The value SQLite compares with the INTEGER column grch38_pos when the
\* parameter is text: the column's affinity is applied to the text, and a
\* text that reads as a number (blanks around it, a sign, digits, a point,
\* an exponent; no underscore, no inf, no nan) with an integer value is
\* compared as that integer; a text that reads as another number, or as
\* none, equals no stored integer.  A text of digits alone is its own
\* integer and is not read as a float first (up to nine digits: the
\* integers of TLC end at 2^31 - 1).
sqlite_integer(text) ==
    IF AllDigits(text) /\ Len(text) <= 9 THEN Ret(DecimalValue(text))
    ELSE integer_of(py_float(text), text)

\* SELECT ... FROM revel WHERE chr = ? AND grch38_pos = ? AND ref = ? AND alt = ?
select_revel(table, key) ==
    LET p == sqlite_integer(key[2]) IN
    { q \in table : /\ q.chr = key[1]
                    /\ p.exc = "none" /\ q.grch38_pos = p.val
                    /\ q.ref = key[3]
                    /\ q.alt = key[4] }

\* Lines 62-70: execute fails when the file has no table revel; fetchone
\* gives a row or None.
get_single_revel_score(key) ==
    IF ~has_table THEN Raise("OperationalError")
    ELSE LET rows == select_revel(revel, key) IN
         IF rows = {} THEN Ret(NA)
         ELSE LET row == CHOOSE q \in rows : TRUE IN
              IF row.REVEL = Null THEN Ret(PyNone) ELSE Ret(Real(row.REVEL))

LookupKeys ==
    { <<<<"6">>, <<"1", "0">>, <<"A">>, <<"T">>>>,
      <<<<"6">>, <<"1", "0">>, <<"A">>, <<"G">>>>,
      <<<<"7">>, <<"1", "0">>, <<"A">>, <<"T">>>>,
      <<<<"6">>, <<"1", "0", ".", "0">>, <<"A">>, <<"T">>>>,
      <<<<"6">>, <<"x">>, <<"A">>, <<"T">>>> }

\* One call of get_single_revel_score with a key of the set keys:
\* sqlite3.connect (line 51) opens the file and creates it when it is
\* missing.
LookupOf(keys) ==
    /\ \E key \in keys :
          lookup' = [key |-> key, out |-> get_single_revel_score(key)]
    /\ db_exists' = TRUE
    /\ UNCHANGED <<source, has_table, revel, txn, chunk, idx, in_chunk, indexes,
                   builder, pc>>
    /\ UNCHANGED varsNotStore

Lookup == LookupOf(LookupKeys)

\* The keys looked up after a build of a source of RoundTripRows: a key of
\* the source, keys that differ from it in the reference, the alternate,
\* the position or the chromosome alone, and the position written with a
\* point or as no number.
RoundTripKeys ==
    { <<<<"6">>, <<"1", "0">>, <<"A">>, <<"T">>>>,
      <<<<"6">>, <<"1", "0">>, <<"G">>, <<"T">>>>,
      <<<<"6">>, <<"1", "0">>, <<"A">>, <<"G">>>>,
      <<<<"6">>, <<"2", "0">>, <<"A">>, <<"T">>>>,
      <<<<"7">>, <<"1", "0">>, <<"A">>, <<"T">>>>,
      <<<<"5">>, <<"1", "0">>, <<"A">>, <<"T">>>>,
      <<<<"6">>, <<"1", "0", ".", "0">>, <<"A">>, <<"T">>>>,
      <<<<"6">>, <<"x">>, <<"A">>, <<"T">>>> }

LookupRoundTrip == LookupOf(RoundTripKeys)

(***************************************************************************)
(* tools/revel.py main_revel_pipeline and assign_revel_scores              *)
(***************************************************************************)
\* A REVEL cell of a row before the column exists.
NoCell == [type |-> "no cell", value |-> Decimal(0, 0)]

\* tools/revel/revel.py lines 195-220, the body of the loop of that file's
\* assign_revel_scores: a missing hg38_gnomad_format gets pd.NA at once,
\* variant_id_gnomad is not read.
revel_cell_without_fallback(row) ==
    LET v == row.hg38_gnomad_format IN
    IF ~IsStr(v) THEN [cell |-> NA, connected |-> FALSE]
    ELSE LET parts == Split(v, "-") IN
         IF Len(parts) # 4 THEN [cell |-> NA, connected |-> FALSE]
         ELSE LET r == get_single_revel_score(<<parts[1], parts[2], parts[3], parts[4]>>)
              IN  [cell |-> IF r.exc = "none" THEN r.val ELSE NA, connected |-> TRUE]

\* Mutant: variant_id_gnomad is read first, hg38_gnomad_format when it is
\* missing.
revel_cell_fallback_first(row) ==
    LET v == IF row.variant_id_gnomad = NaN THEN row.hg38_gnomad_format
             ELSE row.variant_id_gnomad
    IN  IF ~IsStr(v) THEN [cell |-> NA, connected |-> FALSE]
        ELSE LET parts == Split(v, "-") IN
             IF Len(parts) # 4 THEN [cell |-> NA, connected |-> FALSE]
             ELSE LET r == get_single_revel_score(<<parts[1], parts[2], parts[3], parts[4]>>)
                  IN  [cell |-> IF r.exc = "none" THEN r.val ELSE NA, connected |-> TRUE]

\* tools/revel.py lines 26-42, the body of the loop for one row: the cell written to
\* REVEL, and whether get_single_revel_score was called (and so connected).
\* split on a cell that is no string raises AttributeError, the four-way
\* unpack raises ValueError, the query may raise: each gives pd.NA.
revel_cell(row) ==
    LET v == IF row.hg38_gnomad_format = NaN THEN row.variant_id_gnomad
             ELSE row.hg38_gnomad_format
    IN  IF ~IsStr(v) THEN [cell |-> NA, connected |-> FALSE]
        ELSE LET parts == Split(v, "-") IN
             IF Len(parts) # 4 THEN [cell |-> NA, connected |-> FALSE]
             ELSE LET r == get_single_revel_score(<<parts[1], parts[2], parts[3], parts[4]>>)
                  IN  [cell |-> IF r.exc = "none" THEN r.val ELSE NA, connected |-> TRUE]

ToolsRevel == "tools/revel.py"
ToolsRevelRevel == "tools/revel/revel.py"

\* main_revel_pipeline line 77 (line 284 of tools/revel/revel.py):
\* pd.read_csv of the dataset.
ReadDataset ==
    /\ assign_pc = "start"
    /\ input_gene_data' = [i \in 1..Len(dataset) |->
                              [hg38_gnomad_format |-> dataset[i].hg38_gnomad_format,
                               variant_id_gnomad |-> dataset[i].variant_id_gnomad,
                               REVEL |-> NoCell]]
    /\ assign_i' = 0
    /\ assign_pc' = "loop"
    /\ UNCHANGED <<dataset, assigner>>
    /\ UNCHANGED varsStore
    /\ UNCHANGED varsNotAssign

\* tools/revel/revel.py assign_revel_scores lines 194-220: one iteration
\* of for i in range(total_rows).
AssignRowWithoutFallback ==
    /\ assign_pc = "loop"
    /\ assigner = ToolsRevelRevel
    /\ assign_i < Len(input_gene_data)
    /\ LET i == assign_i + 1
           c == revel_cell_without_fallback(input_gene_data[i])
       IN  /\ input_gene_data' = [input_gene_data EXCEPT ![i].REVEL = c.cell]
           /\ db_exists' = (db_exists \/ c.connected)
    /\ assign_i' = assign_i + 1
    /\ UNCHANGED <<dataset, assign_pc, assigner>>
    /\ UNCHANGED <<source, has_table, revel, txn, chunk, idx, in_chunk, indexes,
                   builder, pc, lookup>>
    /\ UNCHANGED varsNotAssign

\* tools/revel.py assign_revel_scores lines 24-42: one iteration of
\* for i in range(total_rows).
AssignRow ==
    /\ assign_pc = "loop"
    /\ assigner = ToolsRevel
    /\ assign_i < Len(input_gene_data)
    /\ LET i == assign_i + 1
           c == revel_cell(input_gene_data[i])
       IN  /\ input_gene_data' = [input_gene_data EXCEPT ![i].REVEL = c.cell]
           /\ db_exists' = (db_exists \/ c.connected)
    /\ assign_i' = assign_i + 1
    /\ UNCHANGED <<dataset, assign_pc, assigner>>
    /\ UNCHANGED <<source, has_table, revel, txn, chunk, idx, in_chunk, indexes,
                   builder, pc, lookup>>
    /\ UNCHANGED varsNotAssign

\* assign_revel_scores line 45 and main_revel_pipeline line 83 (lines 223
\* and 290 of tools/revel/revel.py).
AssignReturn ==
    /\ assign_pc = "loop"
    /\ assign_i = Len(input_gene_data)
    /\ assign_pc' = "returned"
    /\ UNCHANGED <<dataset, input_gene_data, assign_i, assigner>>
    /\ UNCHANGED varsStore
    /\ UNCHANGED varsNotAssign

(***************************************************************************)
(* The datasets the local resolver is applied to, and the stores it reads. *)
(***************************************************************************)
MaxVariants == 3

Id4(c, p, r, a) == Join(<<c, p, r, a>>, "-")

DatasetRows ==
    [hg38_gnomad_format :
        { Id4(<<"6">>, <<"1", "0">>, <<"A">>, <<"T">>),
          Id4(<<"6">>, <<"2", "0">>, <<"G">>, <<"C">>),
          Id4(<<"7">>, <<"3", "0">>, <<"A">>, <<"G">>),
          Join(<<<<"6">>, <<"1", "0">>>>, "-"),
          NaN },
     variant_id_gnomad :
        { Id4(<<"6">>, <<"2", "0">>, <<"G">>, <<"C">>), NaN }]

Datasets == UNION { [1..n -> DatasetRows] : n \in 0..MaxVariants }

StoreRow(c, p, r, a, s) == [chr |-> c, grch38_pos |-> p, ref |-> r, alt |-> a, REVEL |-> s]

StoredRecords ==
    { StoreRow(<<"6">>, 10, <<"A">>, <<"T">>, Decimal(8, 1)),
      StoreRow(<<"6">>, 20, <<"G">>, <<"C">>, Decimal(3, 1)),
      StoreRow(<<"6">>, 10, <<"A">>, <<"G">>, Decimal(5, 1)) }

\* The store is either missing or was built before: any set of records.
AssignStart ==
    /\ dataset \in Datasets
    /\ input_gene_data = <<>>
    /\ assign_i = 0
    /\ assign_pc = "start"
    /\ assigner \in {ToolsRevel, ToolsRevelRevel}
    /\ source = <<>>
    /\ \/ /\ db_exists = FALSE /\ has_table = FALSE /\ revel = {}
          /\ builder = "none" /\ pc = "idle" /\ indexes = {}
       \/ /\ db_exists = TRUE /\ has_table = TRUE /\ revel \in SUBSET StoredRecords
          /\ builder = "init_table" /\ pc = "done"
          /\ indexes = {"idx_pos", "idx_chr_pos"}
    /\ txn = {}
    /\ chunk = <<>>
    /\ idx = 0
    /\ in_chunk = 0
    /\ lookup = NoLookup

(***************************************************************************)
(* tools/cadd.py write_vcf, parse_tsv and cadd_pipeline.                   *)
(***************************************************************************)
\* line.strip().split('\t')
Columns(line) == Split(RStrip(LStrip(line)), TAB)

\* The default of tsv_data.get and the entry of a short line (lines 296-299
\* of parse_tsv): the str "CADD score unavailable", a text like any score
\* read from the file.
Unavailable ==
    <<"C", "A", "D", "D", " ", "s", "c", "o", "r", "e", " ",
      "u", "n", "a", "v", "a", "i", "l", "a", "b", "l", "e">>

variant_columns ==
    <<"hg38_gnomad_format", "variant_id_gnomad", "variant_id", "hg38_ID_clinvar">>

\* write_vcf lines 250-254: the first column whose cell is present and not "?".
variant_value(row) ==
    LET good == { c \in 1..Len(variant_columns) :
                    /\ row[variant_columns[c]] # NaN
                    /\ row[variant_columns[c]] # <<"?">> }
    IN  IF good = {} THEN None
        ELSE row[variant_columns[CHOOSE c \in good : \A e \in good : c <= e]]

\* write_vcf line 256
vcf_line(k) ==
    k[1] \o <<TAB>> \o k[2] \o <<TAB>> \o Dot \o <<TAB>> \o k[3] \o <<TAB>> \o k[4] \o <<LF>>

RECURSIVE write_vcf_from(_, _, _)
write_vcf_from(frame, i, lines) ==
    IF i > Len(frame) THEN [exc |-> "none", val |-> lines]
    ELSE LET k == parse_variant(variant_value(frame[i])) IN
         IF k.exc # "none" THEN [exc |-> k.exc, val |-> lines]
         ELSE write_vcf_from(frame, i + 1, Append(lines, vcf_line(k.val)))

\* write_vcf: the lines written, one per row, until parse_variant raises.
write_vcf(frame) == write_vcf_from(frame, 1, <<>>)

IsComment(line) == Len(line) > 0 /\ line[1] = "#"

\* f"{a}:{b}:{c}:{d}"
tsv_key(a, b, c, d) == Join(<<a, b, c, d>>, ":")

\* tsv_data.get(key, "CADD score unavailable") after the loop of lines
\* 284-289: the score of the last data line with the key.
tsv_data_get(tsv, key) ==
    LET hits == { j \in 1..Len(tsv) :
                    /\ ~IsComment(tsv[j])
                    /\ LET c == Columns(tsv[j]) IN tsv_key(c[1], c[2], c[3], c[4]) = key }
    IN  IF hits = {} THEN Unavailable
        ELSE Columns(tsv[CHOOSE j \in hits : \A e \in hits : e <= j])[6]

\* parse_tsv: a data line with fewer than six columns raises IndexError,
\* which leaves the function as ValueError (lines 303-304).
parse_tsv(tsv, vcf) ==
    IF \E j \in 1..Len(tsv) : ~IsComment(tsv[j]) /\ Len(Columns(tsv[j])) < 6
    THEN Raise("ValueError")
    ELSE Ret([i \in 1..Len(vcf) |->
                LET c == Columns(vcf[i]) IN
                IF Len(c) < 5 THEN Unavailable
                ELSE tsv_data_get(tsv, tsv_key(c[1], c[2], c[4], c[5]))])

(***************************************************************************)
(* The frames cadd_pipeline is applied to and the result files of the job. *)
(***************************************************************************)
MaxCaddRows == 2
MaxResultLines == 2

CaddRow(a, b, c, d) ==
    [hg38_gnomad_format |-> a, variant_id_gnomad |-> b, variant_id |-> c,
     hg38_ID_clinvar |-> d]

CaddRows ==
    { CaddRow(Id4(<<"6">>, <<"1", "0">>, <<"A">>, <<"T">>), NaN, NaN, NaN),
      CaddRow(NaN, Id4(<<"6">>, <<"2", "0">>, <<"G">>, <<"C">>), NaN, NaN),
      CaddRow(<<"?">>, NaN, Join(<<<<"6">>, <<"1", "0">>, <<"A">>>>, "-"), NaN),
      CaddRow(NaN, NaN, NaN, NaN),
      CaddRow(Join(<<<<"6">>, <<"1", "0">>>>, "-"), NaN, NaN, NaN),
      CaddRow(Id4(<<"6">>, <<"1", "0">>, <<"A">>, <<>>), NaN, NaN, NaN) }

CaddFrames == UNION { [1..n -> CaddRows] : n \in 0..MaxCaddRows }

TsvLine(fields) == Join(fields, TAB) \o <<LF>>

ResultLines ==
    { TsvLine(<<<<"6">>, <<"1", "0">>, <<"A">>, <<"T">>, <<"x">>, <<"5">>>>),
      TsvLine(<<<<"6">>, <<"1", "0">>, <<"A">>, <<"T">>, <<"x">>, <<"9">>>>),
      TsvLine(<<<<"6">>, <<"2", "0">>, <<"G">>, <<"C">>, <<"x">>, <<"7">>>>),
      TsvLine(<<<<"6">>, <<"1", "0">>, <<"A">>, <<"T">>, <<"x">>, Unavailable>>),
      TsvLine(<<<<"#", "6">>, <<"1", "0">>, <<"A">>, <<"T">>, <<"x">>, <<"8">>>>),
      TsvLine(<<<<"#", "#", " ", "C", "A", "D", "D">>>>),
      TsvLine(<<>>) }

ResultFiles == UNION { [1..n -> ResultLines] : n \in 0..MaxResultLines }

\* cadd_pipeline lines 334-335: write_vcf; open(..., 'w') creates the file
\* before the first row is parsed.
CaddWriteVcf ==
    /\ cadd_pc = "start"
    /\ LET w == write_vcf(cadd_frame) IN
          /\ vcf_file' = w.val
          /\ IF w.exc = "none"
             THEN cadd_pc' = "written" /\ cadd_out' = cadd_out
             ELSE cadd_pc' = "raised" /\ cadd_out' = Raise(w.exc)
    /\ disk' = disk \cup {"cadd.vcf"}
    /\ UNCHANGED <<cadd_frame, tsv_file, varsJob, phred>>
    /\ UNCHANGED varsNotCadd

\* cadd_pipeline line 336: gzip_file.
CaddGzip ==
    /\ cadd_pc = "written"
    /\ disk' = disk \cup {"cadd.vcf.gz"}
    /\ cadd_pc' = "gzipped"
    /\ UNCHANGED <<cadd_frame, vcf_file, tsv_file, varsJob, phred, cadd_out>>
    /\ UNCHANGED varsNotCadd

(***************************************************************************)
(* get_cadd_scores_file and download_cadd_scores.  The job is Submitted    *)
(* when the upload starts, Pending once the service has accepted the       *)
(* upload and the function looks for its links, Finished when the finished *)
(* link has been followed, Failed when download_cadd_scores ends without   *)
(* having followed it.  A Finished job stays Finished when its archive is  *)
(* then missing and the pipeline ends with FileNotFoundError.              *)
(***************************************************************************)
MaxPolls == 2

\* `finally: driver.quit(); return job_id` (lines 225-227) while an
\* exception is on its way: the return replaces the exception when job_id
\* is bound, and raises UnboundLocalError when it is not.
finally_return(id) ==
    IF id = "bound" THEN Ret(<<"job_id">>) ELSE Raise("UnboundLocalError")

\* Mutant: a job that failed is submitted again.
JobRetriedAfter(out) ==
    /\ download_out' = out
    /\ driver' = "quit"
    /\ job' = "Submitted"
    /\ job_history' = job_history \o <<"Failed", "Submitted">>
    /\ cadd_out' = cadd_out
    /\ cadd_pc' = "submitting"

\* What cadd_pipeline does with an outcome of download_cadd_scores that
\* did not follow the finished link: an exception leaves the pipeline; a
\* normal return leads to gunzip_file of an archive that was never
\* downloaded (lines 154-155), which raises FileNotFoundError.
JobEndsWithout(out) ==
    /\ download_out' = out
    /\ driver' = "quit"
    /\ job' = "Failed"
    /\ job_history' = Append(job_history, "Failed")
    /\ cadd_out' = IF out.exc = "none" THEN Raise("FileNotFoundError") ELSE Raise(out.exc)
    /\ cadd_pc' = "raised"

\* get_cadd_scores_file lines 141-150 and download_cadd_scores line 182:
\* the browser session is opened and the submission starts.
CaddSubmit ==
    /\ cadd_pc = "gzipped"
    /\ driver' = "open"
    /\ job' = "Submitted"
    /\ job_history' = Append(job_history, "Submitted")
    /\ cadd_pc' = "submitting"
    /\ UNCHANGED <<cadd_frame, vcf_file, tsv_file, disk, job_id, polls,
                   download_out, phred, cadd_out>>
    /\ UNCHANGED varsNotCadd

\* Lines 182-191: the page load, the upload or the wait for /upload raises.
CaddUploadFails ==
    /\ cadd_pc = "submitting"
    /\ JobEndsWithout(finally_return(job_id))
    /\ UNCHANGED <<cadd_frame, vcf_file, tsv_file, disk, job_id, polls, phred>>
    /\ UNCHANGED varsNotCadd

\* Lines 182-191 pass: the file is uploaded and the /upload page is shown.
CaddUploaded ==
    /\ cadd_pc = "submitting"
    /\ job' = "Pending"
    /\ job_history' = Append(job_history, "Pending")
    /\ cadd_pc' = "uploaded"
    /\ UNCHANGED <<cadd_frame, vcf_file, tsv_file, disk, job_id, polls,
                   download_out, driver, phred, cadd_out>>
    /\ UNCHANGED varsNotCadd

\* Lines 193-200: the first look for the finished link, 10 seconds.  It is
\* found and followed; or it is not found; or it is found and job_id set,
\* and following it raises.  The bare except takes both failures to the
\* look for the status link.
CaddFirstLook ==
    /\ cadd_pc = "uploaded"
    /\ \/ /\ job_id' = "bound"
          /\ job' = "Finished"
          /\ job_history' = Append(job_history, "Finished")
          /\ cadd_pc' = "finished"
       \/ /\ job_id' \in {job_id, "bound"}
          /\ cadd_pc' = "looking for status link"
          /\ UNCHANGED <<job, job_history>>
    /\ UNCHANGED <<cadd_frame, vcf_file, tsv_file, disk, polls, download_out,
                   driver, phred, cadd_out>>
    /\ UNCHANGED varsNotCadd

\* Lines 202-207: the status link is found within 30 seconds.
CaddStatusLinkFound ==
    /\ cadd_pc = "looking for status link"
    /\ job_id' = "bound"
    /\ cadd_pc' = "opening job page"
    /\ UNCHANGED <<cadd_frame, vcf_file, tsv_file, disk, job, job_history, polls,
                   download_out, driver, phred, cadd_out>>
    /\ UNCHANGED varsNotCadd

\* Lines 208-209: the status link is not found; TimeoutException.
CaddStatusLinkMissing ==
    /\ cadd_pc = "looking for status link"
    /\ JobEndsWithout(finally_return(job_id))
    /\ UNCHANGED <<cadd_frame, vcf_file, tsv_file, disk, job_id, polls, phred>>
    /\ UNCHANGED varsNotCadd

\* Line 211: driver.get(job_url) loads the job page, or raises.
CaddOpenJobPage ==
    /\ cadd_pc = "opening job page"
    /\ \/ /\ cadd_pc' = "polling"
          /\ UNCHANGED <<varsJob, cadd_out>>
       \/ /\ JobEndsWithout(finally_return(job_id))
          /\ UNCHANGED <<job_id, polls>>
    /\ UNCHANGED <<cadd_frame, vcf_file, tsv_file, disk, phred>>
    /\ UNCHANGED varsNotCadd

\* Line 214: driver.refresh() raises.  The call stands before the try of
\* line 215, so the bare except does not see it: the loop is left and the
\* finally clause returns job_id, which the status link has bound.
CaddRefreshRaises ==
    /\ cadd_pc = "polling"
    /\ JobEndsWithout(finally_return(job_id))
    /\ UNCHANGED <<cadd_frame, vcf_file, tsv_file, disk, job_id, polls, phred>>
    /\ UNCHANGED varsNotCadd

\* Lines 214-224, one turn of the loop in which the page is refreshed and
\* the finished link is absent after 10 seconds: the job is still
\* pending; the bare except sleeps 60 seconds and the loop goes on.
CaddPollAgain ==
    /\ cadd_pc = "polling"
    /\ polls < MaxPolls
    /\ polls' = polls + 1
    /\ UNCHANGED <<cadd_frame, vcf_file, tsv_file, disk, job, job_history,
                   job_id, download_out, driver, phred, cadd_pc, cadd_out>>
    /\ UNCHANGED varsNotCadd

\* Lines 214-224, one turn of the loop in which the page is refreshed and
\* something inside the try of lines 215-222 raises that is not the
\* timeout of the wait: the session fails during the wait, the link is
\* found and reading it or following it raises.  The bare except of line
\* 223 catches every one of them like the absent link: sleep 60 seconds,
\* next turn.
CaddPollRaises ==
    /\ cadd_pc = "polling"
    /\ polls < MaxPolls
    /\ polls' = polls + 1
    /\ UNCHANGED <<cadd_frame, vcf_file, tsv_file, disk, job, job_history,
                   job_id, download_out, driver, phred, cadd_pc, cadd_out>>
    /\ UNCHANGED varsNotCadd

\* Lines 213-222: the turn of the loop that finds and follows the link.
CaddPollFinished ==
    /\ cadd_pc = "polling"
    /\ polls' = polls + 1
    /\ job' = "Finished"
    /\ job_history' = Append(job_history, "Finished")
    /\ cadd_pc' = "finished"
    /\ UNCHANGED <<cadd_frame, vcf_file, tsv_file, disk, job_id, download_out,
                   driver, phred, cadd_out>>
    /\ UNCHANGED varsNotCadd

\* Lines 225-227 and get_cadd_scores_file lines 152-155 for a job whose
\* archive is not in the download directory when the 5 seconds of line
\* 200 or 222 are over and the session is quit: the function returns
\* job_id, and gzip.open in gunzip_file raises FileNotFoundError before
\* any file is written.
CaddArchiveMissing ==
    /\ cadd_pc = "finished"
    /\ download_out' = Ret(<<"job_id">>)
    /\ driver' = "quit"
    /\ cadd_out' = Raise("FileNotFoundError")
    /\ cadd_pc' = "raised"
    /\ UNCHANGED <<cadd_frame, vcf_file, tsv_file, disk, job, job_history, job_id,
                   polls, phred>>
    /\ UNCHANGED varsNotCadd

\* Lines 225-227 and get_cadd_scores_file lines 152-158 for a job whose
\* archive has been downloaded: the function returns job_id, the archive
\* is extracted and removed.
CaddJobFinishes ==
    /\ cadd_pc = "finished"
    /\ download_out' = Ret(<<"job_id">>)
    /\ driver' = "quit"
    /\ \E result \in ResultFiles : tsv_file' = result
    /\ disk' = disk \cup {"GRCh38-v1.7_job.tsv"}
    /\ cadd_pc' = "downloaded"
    /\ UNCHANGED <<cadd_frame, vcf_file, job, job_history, job_id, polls,
                   phred, cadd_out>>
    /\ UNCHANGED varsNotCadd

\* pd.DataFrame(scores) with columns = ["PHRED_cadd"] and the concat of
\* lines 340-342: an empty list gives a frame without columns, and naming
\* its one column raises ValueError.
with_phred_column(frame, scores) ==
    IF Len(scores) = 0 THEN Raise("ValueError")
    ELSE Ret([i \in 1..Len(frame) |-> [row |-> frame[i], PHRED_cadd |-> scores[i]]])

\* cadd_pipeline lines 338-343.
CaddParseAndJoin ==
    /\ cadd_pc = "downloaded"
    /\ disk' = disk \ {"cadd.vcf.gz"}
    /\ LET scores == parse_tsv(tsv_file, vcf_file) IN
          /\ phred' = scores
          /\ cadd_out' = IF scores.exc # "none" THEN Raise(scores.exc)
                         ELSE with_phred_column(cadd_frame, scores.val)
    /\ cadd_pc' = IF cadd_out'.exc = "none" THEN "returned" ELSE "raised"
    /\ UNCHANGED <<cadd_frame, vcf_file, tsv_file, varsJob>>
    /\ UNCHANGED varsNotCadd

CaddStart ==
    /\ cadd_frame \in CaddFrames
    /\ vcf_file = <<>>
    /\ tsv_file = <<>>
    /\ disk = {}
    /\ job = "NotSubmitted"
    /\ job_history = <<>>
    /\ job_id = "unbound"
    /\ polls = 0
    /\ download_out = NotCalled
    /\ driver = "none"
    /\ phred = NotCalled
    /\ cadd_pc = "start"
    /\ cadd_out = NotCalled

(***************************************************************************)
(* routes/workspace_apply_route.py: the three apply routes.  A workspace   *)
(* file is missing or holds rows; a row is its identifier and whether it   *)
(* carries the score column.                                               *)
(***************************************************************************)
Missing == [exists |-> FALSE, rows |-> <<>>]
File(rows) == [exists |-> TRUE, rows |-> rows]

Row(id, s) == [id |-> id, scored |-> s]

\* What a scoring pipeline returns for the rows it read: the same rows, in
\* order, each with its score column.
scored(rows) == [i \in 1..Len(rows) |-> Row(rows[i].id, TRUE)]

\* The outcomes of the scoring call of lines 98-100, 272-273 and 417 on
\* the rows of apply_to: the scored rows, or an exception of the pipeline.
\* cadd_pipeline raises on a frame without rows (with_phred_column).
scoring(r, rows) ==
    {Raise("Exception")} \cup
        (IF r = "cadd" /\ Len(rows) = 0 THEN {} ELSE {Ret(scored(rows))})

\* Mutant: the override parameter is never taken as set.
never_truthy(text) == FALSE

\* `if override:` on the string request.args.get("override").
truthy(text) == text # ""

\* socketio_emit_to_user_session(event, payload, uuid, sid), imported from
\* utils/helpers.py.  The function is described by the specification
\* alone (section 6, progress-notification collaborator): it receives
\* the event, keyed by the user and session, after those sent before.
emit(log, event) == Append(log, event)

Console(type, reason) == [event |-> "console", type |-> type, reason |-> reason]
WorkspaceUpdated == [event |-> "workspace update", type |-> "updated", reason |-> "none"]

\* Lines 104-105 and 277-278; the REVEL route has no merge.
merged(r, existing, fresh) ==
    IF r # "revel" /\ existing # <<>> THEN existing \o fresh ELSE fresh

\* Mutant: the failure is answered like a success.
status_always_200(e) == 200

\* The except clauses of lines 130-201, 303-371 and 444-515.
status_of(e) ==
    IF e = "FileNotFoundError" THEN 404
    ELSE IF e = "PermissionError" THEN 403
    ELSE 500

MaxRequests == 2
Overrides == {"true", "false", ""}
Routes == {"spliceai", "cadd", "revel"}
Paths == {"a.csv", "b.csv"}

\* A request that passed the validation of lines 41-52: the info event.
ApplyRequest ==
    /\ apply_pc \in {"ready", "done"}
    /\ requests < MaxRequests
    /\ requests' = requests + 1
    /\ \E o \in Overrides : override' = o
    /\ before' = files
    /\ existing_data' = <<>>
    /\ result_data' = NotCalled
    /\ error' = "none"
    /\ events' = emit(<<>>, Console("info", "none"))
    /\ response' = 0
    /\ apply_pc' = IF route = "revel" THEN "score" ELSE "prepare"
    /\ UNCHANGED <<route, destination_path, apply_to, files>>
    /\ UNCHANGED varsNotApply

\* Lines 87-92 and 261-266: remove the destination or read it.  os.remove
\* may be refused by the file system.
ApplyPrepare ==
    /\ apply_pc = "prepare"
    /\ IF files[destination_path].exists
       THEN IF truthy(override)
            THEN \/ /\ files' = [files EXCEPT ![destination_path] = Missing]
                    /\ apply_pc' = "score"
                    /\ UNCHANGED <<existing_data, error>>
                 \/ /\ error' = "PermissionError"
                    /\ apply_pc' = "failed"
                    /\ UNCHANGED <<existing_data, files>>
            ELSE /\ existing_data' = files[destination_path].rows
                 /\ apply_pc' = "score"
                 /\ UNCHANGED <<files, error>>
       ELSE /\ apply_pc' = "score"
            /\ UNCHANGED <<existing_data, files, error>>
    /\ UNCHANGED <<route, override, destination_path, apply_to, before,
                   result_data, events, response, requests>>
    /\ UNCHANGED varsNotApply

\* Lines 97-102, 271-275 and 416-419: read apply_to and score it; every
\* exception, a missing source included, is raised again as RuntimeError.
ApplyScore ==
    /\ apply_pc = "score"
    /\ IF ~files[apply_to].exists
       THEN result_data' = Raise("FileNotFoundError")
       ELSE \E out \in scoring(route, files[apply_to].rows) : result_data' = out
    /\ IF result_data'.exc = "none"
       THEN apply_pc' = "write" /\ error' = error
       ELSE apply_pc' = "failed" /\ error' = "RuntimeError"
    /\ UNCHANGED <<route, override, destination_path, apply_to, files, before,
                   existing_data, events, response, requests>>
    /\ UNCHANGED varsNotApply

\* Lines 104-110, 277-283 and 421-424: merge and to_csv; an OSError is
\* raised again as RuntimeError.
ApplyWrite ==
    /\ apply_pc = "write"
    /\ \/ /\ files' = [files EXCEPT ![destination_path] =
                          File(merged(route, existing_data, result_data.val))]
          /\ apply_pc' = "written"
          /\ error' = error
       \/ /\ error' = "RuntimeError"
          /\ apply_pc' = "failed"
          /\ files' = files
    /\ UNCHANGED <<route, override, destination_path, apply_to, before,
                   existing_data, result_data, events, response, requests>>
    /\ UNCHANGED varsNotApply

\* Lines 112-128 and 203 (286-301 and 373, 427-442 and 517).
ApplySucceed ==
    /\ apply_pc = "written"
    /\ events' = emit(emit(events, Console("succ", "none")), WorkspaceUpdated)
    /\ response' = 200
    /\ apply_pc' = "done"
    /\ UNCHANGED <<route, override, destination_path, apply_to, files, before,
                   existing_data, result_data, error, requests>>
    /\ UNCHANGED varsNotApply

\* The except clauses: the errr event with the exception, and the response.
ApplyFail ==
    /\ apply_pc = "failed"
    /\ events' = emit(events, Console("errr", error))
    /\ response' = status_of(error)
    /\ apply_pc' = "done"
    /\ UNCHANGED <<route, override, destination_path, apply_to, files, before,
                   existing_data, result_data, error, requests>>
    /\ UNCHANGED varsNotApply

FileContents ==
    { Missing, File(<<>>), File(<<Row("A", FALSE)>>),
      File(<<Row("B", TRUE), Row("A", FALSE)>>) }

ApplyStart ==
    /\ route \in Routes
    /\ destination_path \in Paths
    /\ apply_to \in Paths
    /\ files \in [Paths -> FileContents]
    /\ before = files
    /\ override = ""
    /\ existing_data = <<>>
    /\ result_data = NotCalled
    /\ error = "none"
    /\ events = <<>>
    /\ response = 0
    /\ requests = 0
    /\ apply_pc = "ready"

(***************************************************************************)
(* Two requests to the CADD route at the same time.  Each runs            *)
(* get_workspace_apply_cadd lines 268-273 and cadd_pipeline lines 334-339  *)
(* on the files of its user's cadd directory; a step is one operation on  *)
(* a file: an open, a read, a close, a remove.  What is written reaches    *)
(* the file when it is closed.  The result file is named after the job id  *)
(* the service gives, which differs from job to job, and is left out.      *)
(***************************************************************************)
Requests == {1, 2}
Users == {"u1", "u2"}
MaxRequestRows == 1

\* Line 268 and line 273: os.path.join(cadd_dir, "cadd.vcf")
vcf_file_path(u) == <<u, "cadd", "cadd.vcf">>

\* gzip_file line 52: f"{file_path}.gz"
gzipped_file_path(u) == <<u, "cadd", "cadd.vcf.gz">>

CaddPaths == { vcf_file_path(u) : u \in Users } \cup { gzipped_file_path(u) : u \in Users }

\* The file at path p has been opened by request r.
opened(t, p, r) == [t EXCEPT ![p] = @ \cup {r}]

\* The lines of a file after `own` is written from its start over `cur`:
\* every line write_vcf writes for the frames below has the same length.
written_over(own, cur) == own \o SubSeq(cur, Len(own) + 1, Len(cur))

\* What stays behind an archive written over a longer one.
Remnant == <<"rest of a longer archive">>

\* write_vcf line 248: open(output_filepath, 'w') creates or empties the
\* file.
RequestOpenVcf(r) ==
    /\ request_pc[r] = "request"
    /\ fs' = [fs EXCEPT ![vcf_file_path(uuid[r])] = File(<<>>)]
    /\ touched' = opened(touched, vcf_file_path(uuid[r]), r)
    /\ request_pc' = [request_pc EXCEPT ![r] = "vcf opened"]
    /\ UNCHANGED <<uuid, dataframe, copied, uploaded, joined>>
    /\ UNCHANGED varsNotRequests

\* write_vcf lines 249-257 and cadd_pipeline line 335: the lines of the
\* request's variants reach the file, from its start, when the with block
\* closes it.
RequestWriteVcf(r) ==
    /\ request_pc[r] = "vcf opened"
    /\ fs' = [fs EXCEPT ![vcf_file_path(uuid[r])] =
                 File(written_over(write_vcf(dataframe[r]).val, @.rows))]
    /\ request_pc' = [request_pc EXCEPT ![r] = "written"]
    /\ UNCHANGED <<uuid, dataframe, touched, copied, uploaded, joined>>
    /\ UNCHANGED varsNotRequests

\* gzip_file lines 53-54: cadd.vcf is opened for reading, and gzip.open
\* with 'wb' creates or empties the archive.
RequestOpenGzipped(r) ==
    /\ request_pc[r] = "written"
    /\ fs' = [fs EXCEPT ![gzipped_file_path(uuid[r])] = File(<<>>)]
    /\ touched' = opened(opened(touched, vcf_file_path(uuid[r]), r),
                         gzipped_file_path(uuid[r]), r)
    /\ request_pc' = [request_pc EXCEPT ![r] = "archive opened"]
    /\ UNCHANGED <<uuid, dataframe, copied, uploaded, joined>>
    /\ UNCHANGED varsNotRequests

\* gzip_file line 55: shutil.copyfileobj reads the file at vcf_file_path as
\* it is now.
RequestCopy(r) ==
    /\ request_pc[r] \in {"archive opened", "archive unlinked"}
    /\ copied' = [copied EXCEPT ![r] = Ret(fs[vcf_file_path(uuid[r])].rows)]
    /\ request_pc' = [request_pc EXCEPT ![r] =
                         IF @ = "archive opened" THEN "copied" ELSE "copied unlinked"]
    /\ UNCHANGED <<uuid, dataframe, fs, touched, uploaded, joined>>
    /\ UNCHANGED varsNotRequests

\* gzip_file lines 53-57 and cadd_pipeline line 336: the compressed lines
\* reach the archive, from its start, when the with block closes it.  Over
\* the bytes another request has written meanwhile they leave the own
\* archive, or the own archive and the rest of the other when that one is
\* longer: the length of compressed data is not computed here, both
\* outcomes are taken.  An archive removed since it was opened stays
\* removed.
RequestGzip(r) ==
    /\ request_pc[r] \in {"copied", "copied unlinked"}
    /\ LET p == gzipped_file_path(uuid[r])
           own == copied[r].val
       IN  IF request_pc[r] = "copied unlinked" THEN fs' = fs
           ELSE \/ fs' = [fs EXCEPT ![p] = File(own)]
                \/ /\ fs[p].rows # <<>>
                   /\ fs[p].rows # own
                   /\ fs' = [fs EXCEPT ![p] = File(Append(own, Remnant))]
    /\ request_pc' = [request_pc EXCEPT ![r] = "gzipped"]
    /\ UNCHANGED <<uuid, dataframe, touched, copied, uploaded, joined>>
    /\ UNCHANGED varsNotRequests

\* download_cadd_scores lines 184-187: the path of the archive is given to
\* the file input; send_keys raises for a path without file.
RequestChooseFile(r) ==
    /\ request_pc[r] = "gzipped"
    /\ request_pc' = [request_pc EXCEPT ![r] =
                         IF fs[gzipped_file_path(uuid[r])].exists THEN "chosen"
                         ELSE "failed"]
    /\ UNCHANGED <<uuid, dataframe, fs, touched, copied, uploaded, joined>>
    /\ UNCHANGED varsNotRequests

\* download_cadd_scores lines 189-192: the form is submitted and the
\* browser sends the file at the path as it is now.  When the file has
\* been removed since it was chosen, the browser sends a form without
\* content or the /upload page is never shown.
RequestUpload(r) ==
    /\ request_pc[r] = "chosen"
    /\ IF fs[gzipped_file_path(uuid[r])].exists
       THEN /\ uploaded' = [uploaded EXCEPT ![r] = Ret(fs[gzipped_file_path(uuid[r])].rows)]
            /\ touched' = opened(touched, gzipped_file_path(uuid[r]), r)
            /\ request_pc' = [request_pc EXCEPT ![r] = "uploaded"]
       ELSE /\ touched' = touched
            /\ \/ /\ uploaded' = [uploaded EXCEPT ![r] = Ret(<<>>)]
                  /\ request_pc' = [request_pc EXCEPT ![r] = "uploaded"]
               \/ /\ uploaded' = uploaded
                  /\ request_pc' = [request_pc EXCEPT ![r] = "failed"]
    /\ UNCHANGED <<uuid, dataframe, fs, copied, joined>>
    /\ UNCHANGED varsNotRequests

\* A request of the same user that has the archive open loses it.
unlinked(pcs, r) ==
    [q \in Requests |->
        IF q # r /\ uuid[q] = uuid[r] /\ pcs[q] = "archive opened" THEN "archive unlinked"
        ELSE IF q # r /\ uuid[q] = uuid[r] /\ pcs[q] = "copied" THEN "copied unlinked"
        ELSE pcs[q]]

\* cadd_pipeline line 338: os.remove(gzipped_file_path), FileNotFoundError
\* when the file is not there.
RequestRemoveGzipped(r) ==
    /\ request_pc[r] = "uploaded"
    /\ IF fs[gzipped_file_path(uuid[r])].exists
       THEN /\ fs' = [fs EXCEPT ![gzipped_file_path(uuid[r])] = Missing]
            /\ touched' = opened(touched, gzipped_file_path(uuid[r]), r)
            /\ request_pc' = unlinked([request_pc EXCEPT ![r] = "removed"], r)
       ELSE /\ request_pc' = [request_pc EXCEPT ![r] = "failed"]
            /\ UNCHANGED <<fs, touched>>
    /\ UNCHANGED <<uuid, dataframe, copied, uploaded, joined>>
    /\ UNCHANGED varsNotRequests

\* cadd_pipeline line 339, parse_tsv lines 292-293: the scores are joined
\* against the lines of the file at vcf_file_path as it is now.
RequestJoin(r) ==
    /\ request_pc[r] = "removed"
    /\ joined' = [joined EXCEPT ![r] = Ret(fs[vcf_file_path(uuid[r])].rows)]
    /\ touched' = opened(touched, vcf_file_path(uuid[r]), r)
    /\ request_pc' = [request_pc EXCEPT ![r] = "joined"]
    /\ UNCHANGED <<uuid, dataframe, fs, copied, uploaded>>
    /\ UNCHANGED varsNotRequests

\* Frames whose identifiers all parse.
RequestRows ==
    { CaddRow(Id4(<<"6">>, <<"1", "0">>, <<"A">>, <<"T">>), NaN, NaN, NaN),
      CaddRow(NaN, Id4(<<"6">>, <<"2", "0">>, <<"G">>, <<"C">>), NaN, NaN) }

RequestFrames == UNION { [1..n -> RequestRows] : n \in 1..MaxRequestRows }

RequestsStart ==
    /\ uuid \in [Requests -> Users]
    /\ dataframe \in [Requests -> RequestFrames]
    /\ fs = [p \in CaddPaths |-> Missing]
    /\ touched = [p \in CaddPaths |-> {}]
    /\ copied = [r \in Requests |-> NotCalled]
    /\ uploaded = [r \in Requests |-> NotCalled]
    /\ joined = [r \in Requests |-> NotCalled]
    /\ request_pc = [r \in Requests |-> "request"]

(***************************************************************************)
(* The REVEL CSV the builds read.                                          *)
(***************************************************************************)
MaxRows == 3

CsvRow(c, p, r, a, s) == [chr |-> c, grch38_pos |-> p, ref |-> r, alt |-> a, REVEL |-> s]

SourceRows ==
    { CsvRow(<<"6">>, <<"1", "0">>, <<"A">>, <<"T">>, <<"0", ".", "8">>),
      CsvRow(<<"6">>, <<"0", "1", "0">>, <<"A">>, <<"T">>, <<"0", ".", "3">>),
      CsvRow(<<"6">>, <<"2", "0">>, <<"A">>, <<"T">>, <<"0", ".", "3", "0">>),
      CsvRow(<<"6">>, Dot, <<"A">>, <<"T">>, <<"0", ".", "8">>),
      CsvRow(<<"6">>, <<"x">>, <<"A">>, <<"T">>, <<"0", ".", "8">>),
      CsvRow(<<"6">>, TwoTo63, <<"A">>, <<"T">>, <<"0", ".", "8">>),
      CsvRow(<<"6">>, <<"1", "0">>, <<"A">>, <<"T">>, <<"b", "a", "d">>),
      CsvRow(<<"5">>, <<"1", "0">>, <<"A">>, <<"T">>, <<"0", ".", "8">>),
      CsvRow(<<"7">>, <<"1", "0">>, <<"A">>, <<"T">>, <<"0", ".", "8">>) }

Sources == UNION { [1..n -> SourceRows] : n \in 0..MaxRows }

\* Rows for the round trip of build and lookup: keys that differ in one
\* field, a key written twice with two scores, the score nan, which
\* float() reads, and rows init_table does not take.
RoundTripRows ==
    { CsvRow(<<"6">>, <<"1", "0">>, <<"A">>, <<"T">>, <<"0", ".", "8">>),
      CsvRow(<<"6">>, <<"0", "1", "0">>, <<"A">>, <<"T">>, <<"0", ".", "3">>),
      CsvRow(<<"6">>, <<"1", "0">>, <<"G">>, <<"T">>, <<"0", ".", "3", "0">>),
      CsvRow(<<"6">>, <<"1", "0">>, <<"A">>, <<"G">>, <<"0", ".", "5">>),
      CsvRow(<<"6">>, <<"2", "0">>, <<"A">>, <<"T">>, <<"0", ".", "3">>),
      CsvRow(<<"6">>, <<"1", "0">>, <<"A">>, <<"T">>, <<"n", "a", "n">>),
      CsvRow(<<"6">>, <<"x">>, <<"A">>, <<"T">>, <<"0", ".", "8">>),
      CsvRow(<<"6">>, <<"1", "0">>, <<"A">>, <<"T">>, <<"b", "a", "d">>),
      CsvRow(<<"5">>, <<"1", "0">>, <<"A">>, <<"T">>, <<"0", ".", "8">>),
      CsvRow(<<"7">>, <<"1", "0">>, <<"A">>, <<"T">>, <<"0", ".", "8">>) }

RoundTripSources == UNION { [1..n -> RoundTripRows] : n \in 0..MaxRows }

StoreStartOn(sources) ==
    /\ source \in sources
    /\ db_exists = FALSE
    /\ has_table = FALSE
    /\ revel = {}
    /\ txn = {}
    /\ chunk = <<>>
    /\ idx = 0
    /\ in_chunk = 0
    /\ indexes = {}
    /\ builder = "none"
    /\ pc = "idle"
    /\ lookup = NoLookup

StoreStart == StoreStartOn(Sources)

RoundTripStart == StoreStartOn(RoundTripSources)

(***************************************************************************)
(* Specifications                                                          *)
(***************************************************************************)
ParseIdle ==
    /\ id_parts = <<>>
    /\ variant_str = None
    /\ parsed = NotCalled

StoreIdle ==
    /\ source = <<>>
    /\ db_exists = FALSE
    /\ has_table = FALSE
    /\ revel = {}
    /\ txn = {}
    /\ chunk = <<>>
    /\ idx = 0
    /\ in_chunk = 0
    /\ indexes = {}
    /\ builder = "none"
    /\ pc = "idle"
    /\ lookup = NoLookup

AssignIdle ==
    /\ dataset = <<>>
    /\ input_gene_data = <<>>
    /\ assign_i = 0
    /\ assign_pc = "idle"
    /\ assigner = "none"

CaddIdle ==
    /\ cadd_frame = <<>>
    /\ vcf_file = <<>>
    /\ tsv_file = <<>>
    /\ disk = {}
    /\ job = "NotSubmitted"
    /\ job_history = <<>>
    /\ job_id = "unbound"
    /\ polls = 0
    /\ download_out = NotCalled
    /\ driver = "none"
    /\ phred = NotCalled
    /\ cadd_pc = "idle"
    /\ cadd_out = NotCalled

ApplyIdle ==
    /\ route = "none"
    /\ destination_path = "none"
    /\ apply_to = "none"
    /\ files = <<>>
    /\ before = <<>>
    /\ override = ""
    /\ existing_data = <<>>
    /\ result_data = NotCalled
    /\ error = "none"
    /\ events = <<>>
    /\ response = 0
    /\ requests = 0
    /\ apply_pc = "idle"

RequestsIdle ==
    /\ uuid = <<>>
    /\ dataframe = <<>>
    /\ fs = <<>>
    /\ touched = <<>>
    /\ copied = <<>>
    /\ uploaded = <<>>
    /\ joined = <<>>
    /\ request_pc = <<>>

ParseInit == ParseStart /\ StoreIdle /\ AssignIdle /\ CaddIdle /\ ApplyIdle /\ RequestsIdle

ParseNext == CallParseVariant

\* parse_variant applied to every identifier of the input set.
SpecParse == ParseInit /\ [][ParseNext]_vars

StoreInit == StoreStart /\ ParseIdle /\ AssignIdle /\ CaddIdle /\ ApplyIdle /\ RequestsIdle

StoreNext ==
    \/ StartInitTable
    \/ InitTableConnect
    \/ InitTableCreate
    \/ InitTableRow
    \/ InitTableEndOfFile
    \/ InitTableLeftover
    \/ InitTableIndexPos
    \/ InitTableIndexChrPos
    \/ StartPrepare
    \/ PrepareConnect
    \/ PrepareCreate
    \/ PrepareRow
    \/ PrepareChunkCommit
    \/ PrepareEndOfFile
    \/ Overwrite
    \/ Crash
    \/ Lookup

\* The two build operations, the removal of the file by the script and the
\* point lookup on one database file.
SpecStore == StoreInit /\ [][StoreNext]_vars

BuildNext ==
    \/ StartInitTable
    \/ InitTableConnect
    \/ InitTableCreate
    \/ InitTableRow
    \/ InitTableEndOfFile
    \/ InitTableLeftover
    \/ InitTableIndexPos
    \/ InitTableIndexChrPos
    \/ StartPrepare
    \/ PrepareConnect
    \/ PrepareCreate
    \/ PrepareRow
    \/ PrepareChunkCommit
    \/ PrepareEndOfFile

\* The builds alone, in a process that is never killed and always gets to
\* run its next statement.
SpecBuildFair == StoreInit /\ [][BuildNext]_vars /\ WF_vars(BuildNext)

RoundTripInit ==
    RoundTripStart /\ ParseIdle /\ AssignIdle /\ CaddIdle /\ ApplyIdle /\ RequestsIdle

RoundTripNext ==
    \/ StartInitTable
    \/ InitTableConnect
    \/ InitTableCreate
    \/ InitTableRow
    \/ InitTableEndOfFile
    \/ InitTableLeftover
    \/ InitTableIndexPos
    \/ InitTableIndexChrPos
    \/ LookupRoundTrip

\* init_table on a source of RoundTripRows, in a process that is not
\* killed, and lookups of RoundTripKeys.
SpecRoundTrip == RoundTripInit /\ [][RoundTripNext]_vars

AssignInit == AssignStart /\ ParseIdle /\ CaddIdle /\ ApplyIdle /\ RequestsIdle

AssignNext ==
    \/ ReadDataset
    \/ AssignRow
    \/ AssignRowWithoutFallback
    \/ AssignReturn

\* main_revel_pipeline on a dataset, with the store as a build left it.
SpecAssign == AssignInit /\ [][AssignNext]_vars

CaddInit == CaddStart /\ ParseIdle /\ StoreIdle /\ AssignIdle /\ ApplyIdle /\ RequestsIdle

CaddNext ==
    \/ CaddWriteVcf
    \/ CaddGzip
    \/ CaddSubmit
    \/ CaddUploadFails
    \/ CaddUploaded
    \/ CaddFirstLook
    \/ CaddStatusLinkFound
    \/ CaddStatusLinkMissing
    \/ CaddOpenJobPage
    \/ CaddRefreshRaises
    \/ CaddPollAgain
    \/ CaddPollRaises
    \/ CaddPollFinished
    \/ CaddArchiveMissing
    \/ CaddJobFinishes
    \/ CaddParseAndJoin

\* cadd_pipeline on a frame, with a remote job that finishes.
SpecCadd == CaddInit /\ [][CaddNext]_vars

\* The same, with a process that gets to run the loop of lines 213-224
\* and the return that follows it.
SpecCaddFair ==
    /\ CaddInit
    /\ [][CaddNext]_vars
    /\ WF_vars(CaddRefreshRaises \/ CaddPollAgain \/ CaddPollRaises \/ CaddPollFinished)
    /\ WF_vars(CaddArchiveMissing \/ CaddJobFinishes)

ApplyInit == ApplyStart /\ ParseIdle /\ StoreIdle /\ AssignIdle /\ CaddIdle /\ RequestsIdle

ApplyNext ==
    \/ ApplyRequest
    \/ ApplyPrepare
    \/ ApplyScore
    \/ ApplyWrite
    \/ ApplySucceed
    \/ ApplyFail

\* Successive apply requests of one route on one source and destination.
SpecApply == ApplyInit /\ [][ApplyNext]_vars

RequestsInit ==
    /\ RequestsStart /\ ParseIdle /\ StoreIdle /\ AssignIdle /\ CaddIdle /\ ApplyIdle

RequestsNext ==
    \/ \E r \in Requests : RequestOpenVcf(r)
    \/ \E r \in Requests : RequestWriteVcf(r)
    \/ \E r \in Requests : RequestOpenGzipped(r)
    \/ \E r \in Requests : RequestCopy(r)
    \/ \E r \in Requests : RequestGzip(r)
    \/ \E r \in Requests : RequestChooseFile(r)
    \/ \E r \in Requests : RequestUpload(r)
    \/ \E r \in Requests : RequestRemoveGzipped(r)
    \/ \E r \in Requests : RequestJoin(r)

\* Two CADD requests, of one user or of two, whose steps interleave.
SpecRequests == RequestsInit /\ [][RequestsNext]_vars

(***************************************************************************)
(* Claims                                                                  *)
(***************************************************************************)
HasChrPrefix(s) == Len(s) >= 3 /\ SubSeq(s, 1, 3) = <<"c", "h", "r">>

\* C1: a four-part identifier c-p-r-a is returned as (c, p, r, a), each part
\* unchanged, and a three-part identifier c-p-x as (c, p, ".", ".").
C1_FourAndThreeParts ==
    parsed # NotCalled =>
        /\ Len(id_parts) = 4 => parsed = Ret(id_parts)
        /\ Len(id_parts) = 3 => parsed = Ret(<<id_parts[1], id_parts[2], Dot, Dot>>)

C1_Witness ==
    /\ parsed # NotCalled
    /\ variant_str = <<"6", "-", "1", "0", "-", "A">>
    /\ parsed = Ret(<<<<"6">>, <<"1", "0">>, Dot, Dot>>)

\* C2: an input that has neither four nor three parts (empty, one, two,
\* five or more parts, or no string at all) yields the unknown-variant
\* sentinel and never an error.
C2_OtherShapesGiveSentinel ==
    (parsed # NotCalled /\ Len(id_parts) \notin {3, 4}) =>
        parsed = Ret(UnknownVariant)

\* C3: every returned key has a chromosome without "chr" prefix and
\* non-empty reference and alternate alleles.
C3_VariantKeyInvariant ==
    (parsed # NotCalled /\ parsed.exc = "none") =>
        /\ ~HasChrPrefix(parsed.val[1])
        /\ parsed.val[3] # Empty
        /\ parsed.val[4] # Empty

\* The build started in this step found the database file in place.
StartedOnExisting == db_exists /\ pc \notin Running /\ pc' # pc /\ builder' # "none"

\* C4: a build operation (init_table or prepare_revel_database) started
\* while the store file exists ends with an already-exists error reported
\* to its caller and leaves the stored records unchanged.
C4_ExistingStoreIsAnError ==
    [][StartedOnExisting => (pc' = "FileExistsError" /\ revel' = revel)]_vars

\* The rows of the CSV that give a tuple, by position in the file.
Parseable(i) == chunk_tuple(source[i]).exc = "none"

\* The rows of the CSV whose tuple binds, and the record of such a row.
Storable(i) == Parseable(i) /\ bound(chunk_tuple(source[i]).val).exc = "none"
TupleOf(i) == bound(chunk_tuple(source[i]).val).val

\* C5: the store holds at most one record per (chromosome, position,
\* reference, alternate), and the score it holds for a key is the score of
\* the first row of the source that gives this key with fields the store
\* takes, in the same batch or not.
C5_FirstWriterWins ==
    /\ \A q1, q2 \in revel \cup txn : RowKey(q1) = RowKey(q2) => q1 = q2
    /\ \A q \in revel \cup txn :
          \E i \in 1..Len(source) :
              /\ Storable(i) /\ TupleOf(i) = q
              /\ \A j \in 1..(i - 1) :
                    Storable(j) => RowKey(TupleOf(j)) # RowKey(q)

\* What the texts of RoundTripRows and RoundTripKeys say, written down by
\* hand: the position of a row, its score, and the position of a key.
PositionWritten ==
    (<<"1", "0">> :> 10) @@ (<<"0", "1", "0">> :> 10) @@ (<<"2", "0">> :> 20)

ScoreWritten ==
    (<<"0", ".", "8">> :> Decimal(8, 1)) @@ (<<"0", ".", "3">> :> Decimal(3, 1))
        @@ (<<"0", ".", "3", "0">> :> Decimal(3, 1)) @@ (<<"0", ".", "5">> :> Decimal(5, 1))
        @@ (<<"n", "a", "n">> :> NotANumber)

KeyPositionWritten ==
    (<<"1", "0">> :> 10) @@ (<<"2", "0">> :> 20) @@ (<<"1", "0", ".", "0">> :> 10)

\* The rows of a source of RoundTripRows that init_table inserts or finds
\* inserted: chromosome 6, no row of chromosome 7 up to it, a position and
\* a score that float() and int() read.
Inserted(i) ==
    /\ \A j \in 1..i : source[j].chr # <<"7">>
    /\ source[i].chr = <<"6">>
    /\ source[i].grch38_pos \in DOMAIN PositionWritten
    /\ source[i].REVEL \in DOMAIN ScoreWritten

\* Row i of the source has the key k.
HasKey(i, k) ==
    /\ source[i].chr = k[1]
    /\ k[2] \in DOMAIN KeyPositionWritten
    /\ PositionWritten[source[i].grch38_pos] = KeyPositionWritten[k[2]]
    /\ source[i].ref = k[3]
    /\ source[i].alt = k[4]

\* The first row of the source inserted with the key k: the record the
\* build inserted for k.
RecordFor(k) ==
    CHOOSE i \in 1..Len(source) :
        /\ Inserted(i) /\ HasKey(i, k)
        /\ \A j \in 1..(i - 1) : ~(Inserted(j) /\ HasKey(j, k))

\* C6: after a completed build, a lookup of key k returns the score of the
\* record the build inserted for k, and the not-found marker when the build
\* inserted no record with key k (a key that differs in one field from a
\* stored key and equals no other is not found).
C6_LookupRoundTrip ==
    (builder = "init_table" /\ pc = "done" /\ lookup.out # NotCalled) =>
        IF \E i \in 1..Len(source) : Inserted(i) /\ HasKey(i, lookup.key)
        THEN lookup.out = Ret(Real(ScoreWritten[source[RecordFor(lookup.key)].REVEL]))
        ELSE lookup.out = Ret(NA)

\* C7: a lookup is read-only in every state: it changes neither the stored
\* records nor whether the store file exists; a repeated lookup of the same
\* key returns the same result; and a first build started after lookups
\* proceeds as one started before them.
C7_LookupIsReadOnly ==
    [][/\ lookup'.out # NotCalled =>
            /\ revel' = revel
            /\ db_exists' = db_exists
            /\ (lookup.out # NotCalled /\ lookup'.key = lookup.key)
                  => lookup'.out = lookup.out
       /\ (builder = "none" /\ builder' = "init_table") => pc' = "connect"]_vars

\* The identifier resolved for a dataset row.
IdentifierOf(row) ==
    IF row.hg38_gnomad_format = NaN THEN row.variant_id_gnomad
    ELSE row.hg38_gnomad_format

\* The stored scores of the key written in identifier v.
StoredScores(v) ==
    IF ~IsStr(v) \/ Len(Split(v, "-")) # 4 THEN {}
    ELSE LET k == Split(v, "-") IN
         { Real(q.REVEL) : q \in { q \in revel :
                               /\ q.chr = k[1]
                               /\ sqlite_integer(k[2]) = Ret(q.grch38_pos)
                               /\ q.ref = k[3]
                               /\ q.alt = k[4] } }

\* C8: the table main_revel_pipeline of tools/revel.py returns has the N
\* rows of the dataset in their order and one REVEL cell per row: the
\* stored score of the key parsed from the row's identifier when the store
\* has a record for it, and the unavailable marker otherwise; a lookup miss
\* is not a failure.
C8_OneCellPerRowInOrder ==
    (assign_pc = "returned" /\ assigner = ToolsRevel) =>
        /\ Len(input_gene_data) = Len(dataset)
        /\ \A i \in 1..Len(dataset) :
              /\ input_gene_data[i].hg38_gnomad_format = dataset[i].hg38_gnomad_format
              /\ input_gene_data[i].variant_id_gnomad = dataset[i].variant_id_gnomad
              /\ LET scores == StoredScores(IdentifierOf(dataset[i])) IN
                 IF has_table /\ scores # {}
                 THEN input_gene_data[i].REVEL \in scores
                 ELSE input_gene_data[i].REVEL = NA

\* The end-to-end scenario of the spec: three rows, two of them stored.
C8_Witness ==
    /\ assign_pc = "returned"
    /\ assigner = ToolsRevel
    /\ Len(dataset) = 3
    /\ dataset[1].hg38_gnomad_format = Id4(<<"6">>, <<"1", "0">>, <<"A">>, <<"T">>)
    /\ dataset[2].hg38_gnomad_format = NaN
    /\ dataset[2].variant_id_gnomad = Id4(<<"6">>, <<"2", "0">>, <<"G">>, <<"C">>)
    /\ dataset[3].hg38_gnomad_format = Id4(<<"7">>, <<"3", "0">>, <<"A">>, <<"G">>)
    /\ input_gene_data[1].REVEL = Real(Decimal(8, 1))
    /\ input_gene_data[2].REVEL = Real(Decimal(3, 1))
    /\ input_gene_data[3].REVEL = NA

\* C9: whatever the shape of each row's identifier, a remote run whose job
\* does not fail returns the N rows in order with one PHRED_cadd cell each;
\* a malformed identifier gets the unavailable sentinel and aborts nothing.
C9_MalformedRowNeverAborts ==
    (cadd_pc \in {"returned", "raised"} /\ job # "Failed") =>
        /\ cadd_out.exc = "none"
        /\ Len(cadd_out.val) = Len(cadd_frame)
        /\ \A i \in 1..Len(cadd_frame) :
              /\ cadd_out.val[i].row = cadd_frame[i]
              /\ cadd_out.val[i].PHRED_cadd = phred.val[i]

\* The result file has the documented format: every line that is no
\* comment has at least the six columns up to the score.
DocumentedFormat(tsv) ==
    \A j \in 1..Len(tsv) : IsComment(tsv[j]) \/ Len(Columns(tsv[j])) >= 6

\* C10: parse_tsv returns one entry per submitted line, in order: the
\* score (column 5) of a result line that is no comment and whose columns
\* 0-3 are the line's chromosome, position, reference and alternate; the
\* sentinel when there is no such line or the submitted line has fewer
\* than five columns; never an error.
C10_OneScorePerSubmittedLine ==
    phred # NotCalled =>
        /\ phred.exc = "none"
        /\ Len(phred.val) = Len(vcf_file)
        /\ \A i \in 1..Len(vcf_file) :
              LET c == Columns(vcf_file[i])
                  matches == { j \in 1..Len(tsv_file) :
                                 /\ ~IsComment(tsv_file[j])
                                 /\ Len(c) >= 5
                                 /\ SubSeq(Columns(tsv_file[j]), 1, 4)
                                       = <<c[1], c[2], c[4], c[5]>> }
              IN  IF matches = {} THEN phred.val[i] = Unavailable
                  ELSE \E j \in matches : phred.val[i] = Columns(tsv_file[j])[6]

\* The request has been answered with success.
Succeeded == apply_pc = "done" /\ response = 200

\* C11: after a successful request with override "true" the destination
\* holds exactly the freshly scored rows, in their order, and none of the
\* rows it held before, on each of the three routes and whether or not the
\* destination existed.
C11_OverrideReplacesDestination ==
    (Succeeded /\ override = "true") =>
        /\ result_data.exc = "none"
        /\ result_data.val = scored(before[apply_to].rows)
        /\ files[destination_path] = File(result_data.val)

\* A successful override on a destination that held other rows.
C11_Witness ==
    /\ Succeeded
    /\ override = "true"
    /\ route = "cadd"
    /\ before[destination_path].exists
    /\ Len(before[destination_path].rows) = 2
    /\ Len(files[destination_path].rows) = 1

\* C12: a successful CADD or SpliceAI request whose override parameter
\* is "false" leaves in the destination the rows E it held before followed
\* by the freshly scored rows F, both in order and without deduplication
\* (hence E and k copies of F after k such requests).
C12_AppendKeepsExistingRows ==
    (Succeeded /\ override = "false" /\ route \in {"cadd", "spliceai"}
        /\ before[destination_path].exists) =>
        files[destination_path].rows
            = before[destination_path].rows \o result_data.val

\* C13: a successful REVEL request with override "false" on a destination
\* that holds rows E leaves E followed by the freshly scored rows.
C13_RevelAppendKeepsExistingRows ==
    (Succeeded /\ override = "false" /\ route = "revel"
        /\ before[destination_path].exists) =>
        /\ existing_data = before[destination_path].rows
        /\ files[destination_path].rows = existing_data \o result_data.val

\* C14: once cadd_pipeline has returned or raised, none of its transient
\* files (the VCF input, its gzipped copy, the result archive, the
\* extracted result) is left on disk.
C14_NoTransientFileRemains ==
    cadd_pc \in {"returned", "raised"} => disk = {}

AllowedHistories ==
    { <<"Submitted", "Pending", "Finished">>,
      <<"Submitted", "Pending", "Failed">>,
      <<"Submitted", "Failed">> }

IsPrefix(h, full) == Len(h) <= Len(full) /\ SubSeq(full, 1, Len(h)) = h

\* C15: the status history of a job is at every moment the beginning of
\* Submitted, Pending, Finished or Submitted, Pending, Failed or
\* Submitted, Failed; once Finished or Failed the status never changes and
\* the job page is not polled again.
C15_JobStatusMachine ==
    [][ /\ \E full \in AllowedHistories : IsPrefix(job_history', full)
        /\ job \in {"Finished", "Failed"} => (job' = job /\ polls' = polls)
      ]_vars

\* A job that finished at the second refresh of its page, whose result
\* has been fetched.
C15_Witness ==
    /\ job_history = <<"Submitted", "Pending", "Finished">>
    /\ polls = 2
    /\ cadd_pc = "downloaded"

Types(log) == [i \in 1..Len(log) |-> log[i].type]

\* C16: a validated request emits info first; while it runs nothing else
\* has been emitted; when it has completed, the events are info, succ,
\* updated with response 200 and the destination written, or info, errr
\* with the failure reason and a response other than 200: one terminal
\* console event, never both, and the update signal only after succ.
C16_ProgressEventOrder ==
    requests > 0 =>
        /\ events[1] = Console("info", "none")
        /\ apply_pc \notin {"done"} => (Len(events) = 1 /\ response = 0)
        /\ apply_pc = "done" =>
              \/ /\ Types(events) = <<"info", "succ", "updated">>
                 /\ events[3] = WorkspaceUpdated
                 /\ response = 200
                 /\ files[destination_path]
                       = File(merged(route, existing_data, result_data.val))
              \/ /\ Types(events) = <<"info", "errr">>
                 /\ events[2].reason = error
                 /\ error # "none"
                 /\ response # 200
                 /\ response # 0

\* A second request that failed in the scoring step, after a first one.
C16_Witness ==
    /\ requests = 2
    /\ apply_pc = "done"
    /\ response = 500
    /\ Types(events) = <<"info", "errr">>
    /\ result_data.exc = "Exception"

\* C17: on every finite source a build that has started reading
\* eventually has committed everything, created both indexes and returned;
\* and no index exists while a build still reads or holds a batch.
C17_BuildsFinishWithIndexes ==
    /\ [](pc = "loop" =>
            <>(pc = "done" /\ txn = {} /\ indexes = {"idx_pos", "idx_chr_pos"}))
    /\ [](indexes # {} => pc \notin {"loop", "leftover"})

\* The rows init_table admits: chromosome 6, before the first row whose
\* chromosome compares greater than "6", with a position and a score that
\* read as numbers and bind.
Admitted(i) ==
    /\ \A j \in 1..i : ~StrGreater(source[j].chr, <<"6">>)
    /\ source[i].chr = <<"6">>
    /\ Storable(i)

\* The first-writer-wins set of the rows init_table accepts among the
\* first n rows of the source.
PrefixStore(n) ==
    { TupleOf(i) : i \in { k \in 1..n :
        /\ Admitted(k)
        /\ \A j \in 1..(k - 1) :
              Admitted(j) => RowKey(TupleOf(j)) # RowKey(TupleOf(k)) } }

\* C18: at every moment of init_table, and after a crash at any step, the
\* committed records are the first-writer-wins set of the accepted rows of
\* a prefix of the source, and the rows read beyond that prefix are those
\* of the one batch not yet committed.
C18_CommittedStoreIsAPrefix ==
    (builder = "init_table" /\ pc \in Running \cup {"done", "crashed", "OverflowError"}) =>
        /\ \E n \in 0..idx :
              /\ revel = PrefixStore(n)
              /\ idx - n <= chunk_size
        /\ pc = "done" => revel = PrefixStore(Len(source))

\* A crash after a committed batch that loses a row of the next batch.
C18_Witness ==
    /\ builder = "init_table" /\ pc = "crashed"
    /\ revel # {}
    /\ revel # PrefixStore(idx)

\* Row i has a position and a score that read as numbers.
Numeric(i) ==
    /\ py_int(source[i].grch38_pos).exc = "none"
    /\ py_float(source[i].REVEL).exc = "none"

\* The position of row i fits the INTEGER column.
Fits(i) == py_int(source[i].grch38_pos).val.bits = "64"

\* The record row i gives when it is loaded.
RecordOf(i) ==
    [chr |-> source[i].chr, grch38_pos |-> py_int(source[i].grch38_pos).val.value,
     ref |-> source[i].ref, alt |-> source[i].alt,
     REVEL |-> py_float(source[i].REVEL).val]

\* Row i passes the filter of the running build: prepare_revel_database
\* has none; init_table keeps chromosome 6 up to its early exit.
PassesFilter(i) ==
    builder = "init_table" =>
        /\ source[i].chr = <<"6">>
        /\ \A j \in 1..i : ~StrGreater(source[j].chr, <<"6">>)

\* The build has ended, or has read the whole source and committed what
\* it kept.
LoadComplete ==
    \/ builder = "init_table" /\ pc \in {"done", "OverflowError"}
    \/ /\ builder = "prepare_revel_database" /\ pc = "loop"
       /\ idx = Len(source) /\ txn = {} /\ in_chunk = 0

\* C19: when a bulk load has ended, whatever rows have a position "." or
\* a position or score that is no number, no stored record comes from such
\* a row, and every row with numeric fields that passes the filter, also
\* after such a row, has its key in the store.
C19_UnparsableRowsAreSkipped ==
    LoadComplete =>
        /\ \A q \in revel :
              \E i \in 1..Len(source) :
                  Numeric(i) /\ Fits(i) /\ PassesFilter(i) /\ RecordOf(i) = q
        /\ \A i \in 1..Len(source) :
              (Numeric(i) /\ PassesFilter(i)) =>
                  /\ Fits(i)
                  /\ \E q \in revel : RowKey(q) = RowKey(RecordOf(i))

\* Row i is a chromosome-6 row with numeric fields.
ChrSixRow(i) == source[i].chr = <<"6">> /\ Numeric(i)

InStore(i) == Fits(i) /\ \E q \in revel : RowKey(q) = RowKey(RecordOf(i))

\* C20: in any row order, the store init_table leaves when it has ended
\* holds no row of another chromosome and holds every chromosome-6 row with
\* numeric fields, also those that come after a row of a chromosome past
\* "6".
C20_EveryChrSixRowIsLoaded ==
    (builder = "init_table" /\ pc \in {"done", "OverflowError"}) =>
        /\ \A q \in revel : q.chr = <<"6">>
        /\ \A i \in 1..Len(source) : ChrSixRow(i) => InStore(i)

\* Resolving row i fails: its identifier is no string or has not four
\* parts, or the query raises because the store has no table.
ResolutionError(i) ==
    LET v == IdentifierOf(dataset[i]) IN
    \/ ~IsStr(v)
    \/ Len(Split(v, "-")) # 4
    \/ ~has_table

\* Row i has a four-part key that the store, which has its table, lacks.
PlainMiss(i) ==
    LET v == IdentifierOf(dataset[i]) IN
    /\ IsStr(v) /\ Len(Split(v, "-")) = 4
    /\ has_table
    /\ StoredScores(v) = {}

\* C21: the REVEL cell of a row whose resolution failed is never the marker
\* written for a key that is absent from the store, so the two outcomes
\* can be told apart in the returned table.
C21_MissDiffersFromError ==
    (assign_pc = "returned" /\ assigner = ToolsRevel) =>
        /\ \A j \in 1..Len(dataset) : PlainMiss(j) => input_gene_data[j].REVEL = NA
        /\ \A i \in 1..Len(dataset) : ResolutionError(i) => input_gene_data[i].REVEL # NA

\* The cell is present and not "?".
Usable(cell) == cell # NaN /\ cell # <<"?">>

\* The five fields of the line for a row: from the parse of its first
\* usable identifier column, or five "." when it has none.
FieldsFor(row) ==
    LET cols == { c \in 1..4 : Usable(row[variant_columns[c]]) } IN
    IF cols = {} THEN <<Dot, Dot, Dot, Dot, Dot>>
    ELSE LET first == CHOOSE c \in cols : \A e \in cols : c <= e
             k == parse_variant(row[variant_columns[first]]).val
         IN  IF Len(k) = 4 THEN <<k[1], k[2], Dot, k[3], k[4]>> ELSE <<>>

\* C22: once write_vcf has run, the file has exactly one line per row of
\* the dataset, in row order and without header, and line i is the five
\* tab-separated fields of row i.
C22_OneVcfLinePerRow ==
    cadd_pc # "start" =>
        /\ Len(vcf_file) = Len(cadd_frame)
        /\ \A i \in 1..Len(cadd_frame) :
              vcf_file[i] = Join(FieldsFor(cadd_frame[i]), TAB) \o <<LF>>

\* C23: when neither the finished link nor the status link is found,
\* download_cadd_scores does not enter the polling loop and ends by raising
\* TimeoutException to its caller, whether or not job_id was already set.
C23_UnresolvableStatusRaisesTimeout ==
    [][CaddStatusLinkMissing =>
          /\ cadd_pc' # "polling"
          /\ download_out' = Raise("TimeoutException")
          /\ job' = "Failed"]_vars

\* The scores of the result lines whose first four columns are those of
\* submitted line i.
MatchedScores(i) ==
    LET c == Columns(vcf_file[i]) IN
    { Columns(tsv_file[j])[6] : j \in { m \in 1..Len(tsv_file) :
            /\ ~IsComment(tsv_file[m])
            /\ Len(c) >= 5
            /\ SubSeq(Columns(tsv_file[m]), 1, 4) = <<c[1], c[2], c[4], c[5]>> } }

\* C24: a job whose page is polled stays Pending through every answer
\* without the finished link, each such answer being followed by one more
\* refresh; unless a refresh itself fails, it then reaches Finished and
\* its result is fetched; and the frame returned for a result file in the
\* documented format carries, row by row, the matched score or the
\* unavailable sentinel.
C24_PendingJobPollsUntilFinished ==
    /\ [][ /\ cadd_pc' = "polling" => job' = "Pending"
           /\ CaddPollAgain => (polls' = polls + 1 /\ cadd_pc' = "polling")
           /\ (cadd_pc' = "returned" /\ DocumentedFormat(tsv_file')) =>
                 /\ cadd_out'.exc = "none"
                 /\ Len(cadd_out'.val) = Len(cadd_frame')
                 /\ \A i \in 1..Len(cadd_frame') :
                       IF MatchedScores(i)' = {}
                       THEN cadd_out'.val[i].PHRED_cadd = Unavailable
                       ELSE cadd_out'.val[i].PHRED_cadd \in MatchedScores(i)'
         ]_vars
    /\ (cadd_pc = "polling") ~>
          \/ job = "Failed"
          \/ /\ job = "Finished"
             /\ download_out = Ret(<<"job_id">>)
             /\ "GRCh38-v1.7_job.tsv" \in disk

\* C25: a failure in a turn of the polling loop other than the absent
\* finished link ends the job as Failed: there is no further refresh and
\* the failure leaves cadd_pipeline as an exception.
C25_PollFailureIsTerminal ==
    [][(CaddPollRaises \/ CaddRefreshRaises) =>
          /\ job' = "Failed"
          /\ cadd_pc' = "raised"
          /\ cadd_out'.exc \notin {"none", "not called"}]_vars

\* The data lines of the result file that have the six columns.
WellFormedLines ==
    { j \in 1..Len(tsv_file) :
        ~IsComment(tsv_file[j]) /\ Len(Columns(tsv_file[j])) >= 6 }

\* C26: parse_tsv never raises because of a data line with fewer than six
\* columns (a blank line included): the line is skipped, and every
\* submitted line still gets the score of a well-formed result line with
\* its key, or the sentinel when there is none.
C26_MalformedResultLineIsSkipped ==
    phred # NotCalled =>
        /\ phred.exc = "none"
        /\ Len(phred.val) = Len(vcf_file)
        /\ \A i \in 1..Len(vcf_file) :
              LET c == Columns(vcf_file[i])
                  hits == { j \in WellFormedLines :
                              /\ Len(c) >= 5
                              /\ SubSeq(Columns(tsv_file[j]), 1, 4)
                                    = <<c[1], c[2], c[4], c[5]>> }
              IN  IF hits = {} THEN phred.val[i] = Unavailable
                  ELSE \E j \in hits : phred.val[i] = Columns(tsv_file[j])[6]

\* C27: of two CADD requests running at the same time no file is opened
\* by both, and each uploads, and later joins its scores against, the
\* lines of exactly its own variants.
C27_TransientFilesAreOwnedByOneJob ==
    /\ \A p \in CaddPaths : Cardinality(touched[p]) <= 1
    /\ \A r \in Requests :
          /\ uploaded[r] # NotCalled => uploaded[r] = Ret(write_vcf(dataframe[r]).val)
          /\ joined[r] # NotCalled => joined[r] = Ret(write_vcf(dataframe[r]).val)

\* The request names one existing file as source and as destination and
\* asks for override, on a route that replaces its destination.
SameFileOverride ==
    /\ route \in {"spliceai", "cadd"}
    /\ apply_to = destination_path
    /\ override = "true"
    /\ before[apply_to].exists

\* C28: a request with override whose source is its destination reads the
\* source rows before the destination is replaced: when it has completed,
\* the scoring step was given the rows, the file exists, and after a
\* success it holds the rows the request started with, scored.
C28_SameFileOverrideKeepsContent ==
    (apply_pc = "done" /\ SameFileOverride) =>
        /\ result_data.exc # "FileNotFoundError"
        /\ files[destination_path].exists
        /\ response = 200 =>
              files[destination_path] = File(scored(before[apply_to].rows))

\* C29: once download_cadd_scores has ended, the browser session is
\* closed; it has returned normally exactly when the finished link was
\* followed, and a call that ended because something raised has reached
\* its caller as an exception.
C29_NormalReturnOnlyWhenFinished ==
    download_out # NotCalled =>
        /\ driver = "quit"
        /\ download_out.exc = "none" <=> job = "Finished"

\* C30: a request that has failed (errr event, a response other than 200)
\* leaves its destination file as it was when the request started.
C30_FailedRequestLeavesDestination ==
    (apply_pc = "done" /\ response # 200) =>
        /\ events[Len(events)].type = "errr"
        /\ files[destination_path] = before[destination_path]

====
